---- MODULE Spec2Model ----
(***************************************************************************)
(* SpawnreDJ: genre reconciliation and encoding (anal_M3U.py), cluster     *)
(* building, cluster ordering and track sequencing (M3U_from_CSV.py).      *)
(* Python str values are TLA+ strings, Python lists are sequences, and     *)
(* insertion-ordered dicts are sequences of records in insertion order.    *)
(***************************************************************************)
EXTENDS Integers, Sequences, FiniteSets, TLC

(* dic_spawnre.genre_mapping: the 256 slots in dict (insertion) order.     *)
(* Parent None is written "None".                                          *)
genre_mapping ==
  <<
    [Code |-> "A00", Hex |-> "0x00", Genre |-> "rock", Parent |-> "None", Related |-> <<>>],
    [Code |-> "A01", Hex |-> "0x01", Genre |-> "classic rock", Parent |-> "A00", Related |-> <<>>],
    [Code |-> "A02", Hex |-> "0x02", Genre |-> "alternative rock", Parent |-> "A00", Related |-> <<"A10">>],
    [Code |-> "A03", Hex |-> "0x03", Genre |-> "indie rock", Parent |-> "A00", Related |-> <<"C03">>],
    [Code |-> "A04", Hex |-> "0x04", Genre |-> "folk rock", Parent |-> "A00", Related |-> <<"B00", "B06", "B07", "A20">>],
    [Code |-> "A05", Hex |-> "0x05", Genre |-> "mellow rock", Parent |-> "A00", Related |-> <<>>],
    [Code |-> "A06", Hex |-> "0x06", Genre |-> "acoustic rock", Parent |-> "A00", Related |-> <<>>],
    [Code |-> "A07", Hex |-> "0x07", Genre |-> "piano rock", Parent |-> "A00", Related |-> <<"B07">>],
    [Code |-> "A08", Hex |-> "0x08", Genre |-> "pop rock", Parent |-> "A00", Related |-> <<>>],
    [Code |-> "A09", Hex |-> "0x09", Genre |-> "hard rock", Parent |-> "A00", Related |-> <<"A10", "A11", "A12">>],
    [Code |-> "A10", Hex |-> "0x0A", Genre |-> "grunge", Parent |-> "A00", Related |-> <<"A02", "A09", "A11", "A12">>],
    [Code |-> "A11", Hex |-> "0x0B", Genre |-> "metal", Parent |-> "A00", Related |-> <<>>],
    [Code |-> "A12", Hex |-> "0x0C", Genre |-> "hardcore", Parent |-> "A00", Related |-> <<>>],
    [Code |-> "A13", Hex |-> "0x0D", Genre |-> "emo", Parent |-> "A00", Related |-> <<>>],
    [Code |-> "A14", Hex |-> "0x0E", Genre |-> "jam band", Parent |-> "A00", Related |-> <<>>],
    [Code |-> "A15", Hex |-> "0x0F", Genre |-> "ska punk", Parent |-> "A00", Related |-> <<"A16">>],
    [Code |-> "A16", Hex |-> "0x10", Genre |-> "punk", Parent |-> "A00", Related |-> <<"A15", "C16">>],
    [Code |-> "A17", Hex |-> "0x11", Genre |-> "surf rock", Parent |-> "A00", Related |-> <<>>],
    [Code |-> "A18", Hex |-> "0x12", Genre |-> "funk rock", Parent |-> "A00", Related |-> <<>>],
    [Code |-> "A19", Hex |-> "0x13", Genre |-> "rock & roll", Parent |-> "A00", Related |-> <<>>],
    [Code |-> "A20", Hex |-> "0x14", Genre |-> "country rock", Parent |-> "A00", Related |-> <<"B00">>],
    [Code |-> "A21", Hex |-> "0x15", Genre |-> "blues rock", Parent |-> "A00", Related |-> <<"H00">>],
    [Code |-> "A22", Hex |-> "0x16", Genre |-> "rap rock", Parent |-> "A00", Related |-> <<"I00">>],
    [Code |-> "A23", Hex |-> "0x17", Genre |-> "rock electronica", Parent |-> "A00", Related |-> <<"J00">>],
    [Code |-> "B00", Hex |-> "0x18", Genre |-> "folk", Parent |-> "None", Related |-> <<"A04">>],
    [Code |-> "B01", Hex |-> "0x19", Genre |-> "singer-songwriter", Parent |-> "B00", Related |-> <<>>],
    [Code |-> "B02", Hex |-> "0x1A", Genre |-> "world music", Parent |-> "None", Related |-> <<>>],
    [Code |-> "B03", Hex |-> "0x1B", Genre |-> "", Parent |-> "None", Related |-> <<>>],
    [Code |-> "B04", Hex |-> "0x1C", Genre |-> "", Parent |-> "None", Related |-> <<>>],
    [Code |-> "B05", Hex |-> "0x1D", Genre |-> "", Parent |-> "None", Related |-> <<>>],
    [Code |-> "B06", Hex |-> "0x1E", Genre |-> "acoustic folk", Parent |-> "B00", Related |-> <<>>],
    [Code |-> "B07", Hex |-> "0x1F", Genre |-> "piano folk", Parent |-> "B00", Related |-> <<>>],
    [Code |-> "B08", Hex |-> "0x20", Genre |-> "", Parent |-> "None", Related |-> <<>>],
    [Code |-> "B09", Hex |-> "0x21", Genre |-> "", Parent |-> "None", Related |-> <<>>],
    [Code |-> "B10", Hex |-> "0x22", Genre |-> "", Parent |-> "None", Related |-> <<>>],
    [Code |-> "B11", Hex |-> "0x23", Genre |-> "", Parent |-> "None", Related |-> <<>>],
    [Code |-> "B12", Hex |-> "0x24", Genre |-> "", Parent |-> "None", Related |-> <<>>],
    [Code |-> "B13", Hex |-> "0x25", Genre |-> "", Parent |-> "None", Related |-> <<>>],
    [Code |-> "B14", Hex |-> "0x26", Genre |-> "", Parent |-> "None", Related |-> <<>>],
    [Code |-> "B15", Hex |-> "0x27", Genre |-> "", Parent |-> "None", Related |-> <<>>],
    [Code |-> "B16", Hex |-> "0x28", Genre |-> "", Parent |-> "None", Related |-> <<>>],
    [Code |-> "B17", Hex |-> "0x29", Genre |-> "", Parent |-> "None", Related |-> <<>>],
    [Code |-> "B18", Hex |-> "0x2A", Genre |-> "", Parent |-> "None", Related |-> <<>>],
    [Code |-> "B19", Hex |-> "0x2B", Genre |-> "", Parent |-> "None", Related |-> <<>>],
    [Code |-> "B20", Hex |-> "0x2C", Genre |-> "", Parent |-> "None", Related |-> <<>>],
    [Code |-> "B21", Hex |-> "0x2D", Genre |-> "", Parent |-> "None", Related |-> <<>>],
    [Code |-> "B22", Hex |-> "0x2E", Genre |-> "", Parent |-> "None", Related |-> <<>>],
    [Code |-> "B23", Hex |-> "0x2F", Genre |-> "", Parent |-> "None", Related |-> <<>>],
    [Code |-> "C00", Hex |-> "0x30", Genre |-> "pop", Parent |-> "None", Related |-> <<>>],
    [Code |-> "C01", Hex |-> "0x31", Genre |-> "", Parent |-> "None", Related |-> <<>>],
    [Code |-> "C02", Hex |-> "0x32", Genre |-> "", Parent |-> "None", Related |-> <<>>],
    [Code |-> "C03", Hex |-> "0x33", Genre |-> "indie pop", Parent |-> "C00", Related |-> <<"A03">>],
    [Code |-> "C04", Hex |-> "0x34", Genre |-> "", Parent |-> "None", Related |-> <<>>],
    [Code |-> "C05", Hex |-> "0x35", Genre |-> "", Parent |-> "None", Related |-> <<>>],
    [Code |-> "C06", Hex |-> "0x36", Genre |-> "", Parent |-> "None", Related |-> <<>>],
    [Code |-> "C07", Hex |-> "0x37", Genre |-> "", Parent |-> "None", Related |-> <<>>],
    [Code |-> "C08", Hex |-> "0x38", Genre |-> "", Parent |-> "None", Related |-> <<>>],
    [Code |-> "C09", Hex |-> "0x39", Genre |-> "", Parent |-> "None", Related |-> <<>>],
    [Code |-> "C10", Hex |-> "0x3A", Genre |-> "", Parent |-> "None", Related |-> <<>>],
    [Code |-> "C11", Hex |-> "0x3B", Genre |-> "", Parent |-> "None", Related |-> <<>>],
    [Code |-> "C12", Hex |-> "0x3C", Genre |-> "", Parent |-> "None", Related |-> <<>>],
    [Code |-> "C13", Hex |-> "0x3D", Genre |-> "", Parent |-> "None", Related |-> <<>>],
    [Code |-> "C14", Hex |-> "0x3E", Genre |-> "", Parent |-> "None", Related |-> <<>>],
    [Code |-> "C15", Hex |-> "0x3F", Genre |-> "", Parent |-> "None", Related |-> <<>>],
    [Code |-> "C16", Hex |-> "0x40", Genre |-> "pop punk", Parent |-> "C00", Related |-> <<"A15", "A16">>],
    [Code |-> "C17", Hex |-> "0x41", Genre |-> "", Parent |-> "None", Related |-> <<>>],
    [Code |-> "C18", Hex |-> "0x42", Genre |-> "", Parent |-> "None", Related |-> <<>>],
    [Code |-> "C19", Hex |-> "0x43", Genre |-> "", Parent |-> "None", Related |-> <<>>],
    [Code |-> "C20", Hex |-> "0x44", Genre |-> "", Parent |-> "None", Related |-> <<>>],
    [Code |-> "C21", Hex |-> "0x45", Genre |-> "", Parent |-> "None", Related |-> <<>>],
    [Code |-> "C22", Hex |-> "0x46", Genre |-> "", Parent |-> "None", Related |-> <<>>],
    [Code |-> "C23", Hex |-> "0x47", Genre |-> "", Parent |-> "None", Related |-> <<>>],
    [Code |-> "D00", Hex |-> "0x48", Genre |-> "jazz", Parent |-> "None", Related |-> <<>>],
    [Code |-> "D01", Hex |-> "0x49", Genre |-> "vocal jazz", Parent |-> "D00", Related |-> <<>>],
    [Code |-> "D02", Hex |-> "0x4A", Genre |-> "swing", Parent |-> "D00", Related |-> <<>>],
    [Code |-> "D03", Hex |-> "0x4B", Genre |-> "", Parent |-> "None", Related |-> <<>>],
    [Code |-> "D04", Hex |-> "0x4C", Genre |-> "", Parent |-> "None", Related |-> <<>>],
    [Code |-> "D05", Hex |-> "0x4D", Genre |-> "", Parent |-> "None", Related |-> <<>>],
    [Code |-> "D06", Hex |-> "0x4E", Genre |-> "", Parent |-> "None", Related |-> <<>>],
    [Code |-> "D07", Hex |-> "0x4F", Genre |-> "", Parent |-> "None", Related |-> <<>>],
    [Code |-> "D08", Hex |-> "0x50", Genre |-> "jazz pop", Parent |-> "D00", Related |-> <<>>],
    [Code |-> "D09", Hex |-> "0x51", Genre |-> "", Parent |-> "None", Related |-> <<>>],
    [Code |-> "D10", Hex |-> "0x52", Genre |-> "", Parent |-> "None", Related |-> <<>>],
    [Code |-> "D11", Hex |-> "0x53", Genre |-> "", Parent |-> "None", Related |-> <<>>],
    [Code |-> "D12", Hex |-> "0x54", Genre |-> "", Parent |-> "None", Related |-> <<>>],
    [Code |-> "D13", Hex |-> "0x55", Genre |-> "", Parent |-> "None", Related |-> <<>>],
    [Code |-> "D14", Hex |-> "0x56", Genre |-> "", Parent |-> "None", Related |-> <<>>],
    [Code |-> "D15", Hex |-> "0x57", Genre |-> "", Parent |-> "None", Related |-> <<>>],
    [Code |-> "D16", Hex |-> "0x58", Genre |-> "", Parent |-> "None", Related |-> <<>>],
    [Code |-> "D17", Hex |-> "0x59", Genre |-> "", Parent |-> "None", Related |-> <<>>],
    [Code |-> "D18", Hex |-> "0x5A", Genre |-> "", Parent |-> "None", Related |-> <<>>],
    [Code |-> "D19", Hex |-> "0x5B", Genre |-> "", Parent |-> "None", Related |-> <<>>],
    [Code |-> "D20", Hex |-> "0x5C", Genre |-> "", Parent |-> "None", Related |-> <<>>],
    [Code |-> "D21", Hex |-> "0x5D", Genre |-> "", Parent |-> "None", Related |-> <<>>],
    [Code |-> "D22", Hex |-> "0x5E", Genre |-> "", Parent |-> "None", Related |-> <<>>],
    [Code |-> "D23", Hex |-> "0x5F", Genre |-> "", Parent |-> "None", Related |-> <<>>],
    [Code |-> "E00", Hex |-> "0x60", Genre |-> "reggae", Parent |-> "None", Related |-> <<"E01">>],
    [Code |-> "E01", Hex |-> "0x61", Genre |-> "dub", Parent |-> "E00", Related |-> <<"E00">>],
    [Code |-> "E02", Hex |-> "0x62", Genre |-> "", Parent |-> "None", Related |-> <<>>],
    [Code |-> "E03", Hex |-> "0x63", Genre |-> "", Parent |-> "None", Related |-> <<>>],
    [Code |-> "E04", Hex |-> "0x64", Genre |-> "", Parent |-> "None", Related |-> <<>>],
    [Code |-> "E05", Hex |-> "0x65", Genre |-> "", Parent |-> "None", Related |-> <<>>],
    [Code |-> "E06", Hex |-> "0x66", Genre |-> "", Parent |-> "None", Related |-> <<>>],
    [Code |-> "E07", Hex |-> "0x67", Genre |-> "", Parent |-> "None", Related |-> <<>>],
    [Code |-> "E08", Hex |-> "0x68", Genre |-> "", Parent |-> "None", Related |-> <<>>],
    [Code |-> "E09", Hex |-> "0x69", Genre |-> "", Parent |-> "None", Related |-> <<>>],
    [Code |-> "E10", Hex |-> "0x6A", Genre |-> "", Parent |-> "None", Related |-> <<>>],
    [Code |-> "E11", Hex |-> "0x6B", Genre |-> "", Parent |-> "None", Related |-> <<>>],
    [Code |-> "E12", Hex |-> "0x6C", Genre |-> "", Parent |-> "None", Related |-> <<>>],
    [Code |-> "E13", Hex |-> "0x6D", Genre |-> "", Parent |-> "None", Related |-> <<>>],
    [Code |-> "E14", Hex |-> "0x6E", Genre |-> "", Parent |-> "None", Related |-> <<>>],
    [Code |-> "E15", Hex |-> "0x6F", Genre |-> "ska", Parent |-> "None", Related |-> <<"A16">>],
    [Code |-> "E16", Hex |-> "0x70", Genre |-> "", Parent |-> "None", Related |-> <<>>],
    [Code |-> "E17", Hex |-> "0x71", Genre |-> "", Parent |-> "None", Related |-> <<>>],
    [Code |-> "E18", Hex |-> "0x72", Genre |-> "", Parent |-> "None", Related |-> <<>>],
    [Code |-> "E19", Hex |-> "0x73", Genre |-> "", Parent |-> "None", Related |-> <<>>],
    [Code |-> "E20", Hex |-> "0x74", Genre |-> "", Parent |-> "None", Related |-> <<>>],
    [Code |-> "E21", Hex |-> "0x75", Genre |-> "", Parent |-> "None", Related |-> <<>>],
    [Code |-> "F00", Hex |-> "0x76", Genre |-> "r&b", Parent |-> "None", Related |-> <<"F01", "F18">>],
    [Code |-> "F01", Hex |-> "0x77", Genre |-> "soul", Parent |-> "F00", Related |-> <<"F00">>],
    [Code |-> "F02", Hex |-> "0x78", Genre |-> "gospel", Parent |-> "F00", Related |-> <<>>],
    [Code |-> "F03", Hex |-> "0x79", Genre |-> "", Parent |-> "None", Related |-> <<>>],
    [Code |-> "F04", Hex |-> "0x7A", Genre |-> "", Parent |-> "None", Related |-> <<>>],
    [Code |-> "F05", Hex |-> "0x7B", Genre |-> "", Parent |-> "None", Related |-> <<>>],
    [Code |-> "F06", Hex |-> "0x7C", Genre |-> "", Parent |-> "None", Related |-> <<>>],
    [Code |-> "F07", Hex |-> "0x7D", Genre |-> "", Parent |-> "None", Related |-> <<>>],
    [Code |-> "F08", Hex |-> "0x7E", Genre |-> "", Parent |-> "None", Related |-> <<>>],
    [Code |-> "F09", Hex |-> "0x7F", Genre |-> "", Parent |-> "None", Related |-> <<>>],
    [Code |-> "F10", Hex |-> "0x80", Genre |-> "", Parent |-> "None", Related |-> <<>>],
    [Code |-> "F11", Hex |-> "0x81", Genre |-> "", Parent |-> "None", Related |-> <<>>],
    [Code |-> "F12", Hex |-> "0x82", Genre |-> "", Parent |-> "None", Related |-> <<>>],
    [Code |-> "F13", Hex |-> "0x83", Genre |-> "", Parent |-> "None", Related |-> <<>>],
    [Code |-> "F14", Hex |-> "0x84", Genre |-> "", Parent |-> "None", Related |-> <<>>],
    [Code |-> "F15", Hex |-> "0x85", Genre |-> "", Parent |-> "None", Related |-> <<>>],
    [Code |-> "F16", Hex |-> "0x86", Genre |-> "", Parent |-> "None", Related |-> <<>>],
    [Code |-> "F17", Hex |-> "0x87", Genre |-> "", Parent |-> "None", Related |-> <<>>],
    [Code |-> "F18", Hex |-> "0x88", Genre |-> "funk", Parent |-> "F00", Related |-> <<>>],
    [Code |-> "F19", Hex |-> "0x89", Genre |-> "", Parent |-> "None", Related |-> <<>>],
    [Code |-> "F20", Hex |-> "0x8A", Genre |-> "", Parent |-> "None", Related |-> <<>>],
    [Code |-> "F21", Hex |-> "0x8B", Genre |-> "", Parent |-> "None", Related |-> <<>>],
    [Code |-> "G00", Hex |-> "0x8C", Genre |-> "country", Parent |-> "None", Related |-> <<"A20">>],
    [Code |-> "G01", Hex |-> "0x8D", Genre |-> "", Parent |-> "None", Related |-> <<>>],
    [Code |-> "G02", Hex |-> "0x8E", Genre |-> "", Parent |-> "None", Related |-> <<>>],
    [Code |-> "G03", Hex |-> "0x8F", Genre |-> "", Parent |-> "None", Related |-> <<>>],
    [Code |-> "G04", Hex |-> "0x90", Genre |-> "", Parent |-> "None", Related |-> <<>>],
    [Code |-> "G05", Hex |-> "0x91", Genre |-> "", Parent |-> "None", Related |-> <<>>],
    [Code |-> "G06", Hex |-> "0x92", Genre |-> "", Parent |-> "None", Related |-> <<>>],
    [Code |-> "G07", Hex |-> "0x93", Genre |-> "", Parent |-> "None", Related |-> <<>>],
    [Code |-> "G08", Hex |-> "0x94", Genre |-> "", Parent |-> "None", Related |-> <<>>],
    [Code |-> "G09", Hex |-> "0x95", Genre |-> "", Parent |-> "None", Related |-> <<>>],
    [Code |-> "G10", Hex |-> "0x96", Genre |-> "", Parent |-> "None", Related |-> <<>>],
    [Code |-> "G11", Hex |-> "0x97", Genre |-> "", Parent |-> "None", Related |-> <<>>],
    [Code |-> "G12", Hex |-> "0x98", Genre |-> "", Parent |-> "None", Related |-> <<>>],
    [Code |-> "G13", Hex |-> "0x99", Genre |-> "", Parent |-> "None", Related |-> <<>>],
    [Code |-> "G14", Hex |-> "0x9A", Genre |-> "", Parent |-> "None", Related |-> <<>>],
    [Code |-> "G15", Hex |-> "0x9B", Genre |-> "", Parent |-> "None", Related |-> <<>>],
    [Code |-> "G16", Hex |-> "0x9C", Genre |-> "", Parent |-> "None", Related |-> <<>>],
    [Code |-> "G17", Hex |-> "0x9D", Genre |-> "", Parent |-> "None", Related |-> <<>>],
    [Code |-> "G18", Hex |-> "0x9E", Genre |-> "", Parent |-> "None", Related |-> <<>>],
    [Code |-> "G19", Hex |-> "0x9F", Genre |-> "", Parent |-> "None", Related |-> <<>>],
    [Code |-> "G20", Hex |-> "0xA0", Genre |-> "", Parent |-> "None", Related |-> <<>>],
    [Code |-> "G21", Hex |-> "0xA1", Genre |-> "", Parent |-> "None", Related |-> <<>>],
    [Code |-> "H00", Hex |-> "0xA2", Genre |-> "blues", Parent |-> "None", Related |-> <<"A21">>],
    [Code |-> "H01", Hex |-> "0xA3", Genre |-> "", Parent |-> "None", Related |-> <<>>],
    [Code |-> "H02", Hex |-> "0xA4", Genre |-> "", Parent |-> "None", Related |-> <<>>],
    [Code |-> "H03", Hex |-> "0xA5", Genre |-> "", Parent |-> "None", Related |-> <<>>],
    [Code |-> "H04", Hex |-> "0xA6", Genre |-> "", Parent |-> "None", Related |-> <<>>],
    [Code |-> "H05", Hex |-> "0xA7", Genre |-> "", Parent |-> "None", Related |-> <<>>],
    [Code |-> "H06", Hex |-> "0xA8", Genre |-> "", Parent |-> "None", Related |-> <<>>],
    [Code |-> "H07", Hex |-> "0xA9", Genre |-> "", Parent |-> "None", Related |-> <<>>],
    [Code |-> "H08", Hex |-> "0xAA", Genre |-> "", Parent |-> "None", Related |-> <<>>],
    [Code |-> "H09", Hex |-> "0xAB", Genre |-> "", Parent |-> "None", Related |-> <<>>],
    [Code |-> "H10", Hex |-> "0xAC", Genre |-> "", Parent |-> "None", Related |-> <<>>],
    [Code |-> "H11", Hex |-> "0xAD", Genre |-> "", Parent |-> "None", Related |-> <<>>],
    [Code |-> "H12", Hex |-> "0xAE", Genre |-> "", Parent |-> "None", Related |-> <<>>],
    [Code |-> "H13", Hex |-> "0xAF", Genre |-> "", Parent |-> "None", Related |-> <<>>],
    [Code |-> "H14", Hex |-> "0xB0", Genre |-> "", Parent |-> "None", Related |-> <<>>],
    [Code |-> "H15", Hex |-> "0xB1", Genre |-> "", Parent |-> "None", Related |-> <<>>],
    [Code |-> "H16", Hex |-> "0xB2", Genre |-> "", Parent |-> "None", Related |-> <<>>],
    [Code |-> "H17", Hex |-> "0xB3", Genre |-> "", Parent |-> "None", Related |-> <<>>],
    [Code |-> "H18", Hex |-> "0xB4", Genre |-> "", Parent |-> "None", Related |-> <<>>],
    [Code |-> "H19", Hex |-> "0xB5", Genre |-> "", Parent |-> "None", Related |-> <<>>],
    [Code |-> "H20", Hex |-> "0xB6", Genre |-> "", Parent |-> "None", Related |-> <<>>],
    [Code |-> "H21", Hex |-> "0xB7", Genre |-> "", Parent |-> "None", Related |-> <<>>],
    [Code |-> "I00", Hex |-> "0xB8", Genre |-> "hip-hop", Parent |-> "None", Related |-> <<>>],
    [Code |-> "I01", Hex |-> "0xB9", Genre |-> "", Parent |-> "None", Related |-> <<>>],
    [Code |-> "I02", Hex |-> "0xBA", Genre |-> "", Parent |-> "None", Related |-> <<>>],
    [Code |-> "I03", Hex |-> "0xBB", Genre |-> "", Parent |-> "None", Related |-> <<>>],
    [Code |-> "I04", Hex |-> "0xBC", Genre |-> "", Parent |-> "None", Related |-> <<>>],
    [Code |-> "I05", Hex |-> "0xBD", Genre |-> "", Parent |-> "None", Related |-> <<>>],
    [Code |-> "I06", Hex |-> "0xBE", Genre |-> "", Parent |-> "None", Related |-> <<>>],
    [Code |-> "I07", Hex |-> "0xBF", Genre |-> "", Parent |-> "None", Related |-> <<>>],
    [Code |-> "I08", Hex |-> "0xC0", Genre |-> "", Parent |-> "None", Related |-> <<>>],
    [Code |-> "I09", Hex |-> "0xC1", Genre |-> "", Parent |-> "None", Related |-> <<>>],
    [Code |-> "I10", Hex |-> "0xC2", Genre |-> "", Parent |-> "None", Related |-> <<>>],
    [Code |-> "I11", Hex |-> "0xC3", Genre |-> "", Parent |-> "None", Related |-> <<>>],
    [Code |-> "I12", Hex |-> "0xC4", Genre |-> "", Parent |-> "None", Related |-> <<>>],
    [Code |-> "I13", Hex |-> "0xC5", Genre |-> "", Parent |-> "None", Related |-> <<>>],
    [Code |-> "I14", Hex |-> "0xC6", Genre |-> "", Parent |-> "None", Related |-> <<>>],
    [Code |-> "I15", Hex |-> "0xC7", Genre |-> "", Parent |-> "None", Related |-> <<>>],
    [Code |-> "I16", Hex |-> "0xC8", Genre |-> "", Parent |-> "None", Related |-> <<>>],
    [Code |-> "I17", Hex |-> "0xC9", Genre |-> "", Parent |-> "None", Related |-> <<>>],
    [Code |-> "I18", Hex |-> "0xCA", Genre |-> "", Parent |-> "None", Related |-> <<>>],
    [Code |-> "I19", Hex |-> "0xCB", Genre |-> "", Parent |-> "None", Related |-> <<>>],
    [Code |-> "I20", Hex |-> "0xCC", Genre |-> "", Parent |-> "None", Related |-> <<>>],
    [Code |-> "I21", Hex |-> "0xCD", Genre |-> "", Parent |-> "None", Related |-> <<>>],
    [Code |-> "I22", Hex |-> "0xCE", Genre |-> "", Parent |-> "None", Related |-> <<>>],
    [Code |-> "I23", Hex |-> "0xCF", Genre |-> "", Parent |-> "None", Related |-> <<>>],
    [Code |-> "J00", Hex |-> "0xD0", Genre |-> "electronic", Parent |-> "None", Related |-> <<>>],
    [Code |-> "J01", Hex |-> "0xD1", Genre |-> "edm", Parent |-> "J00", Related |-> <<>>],
    [Code |-> "J02", Hex |-> "0xD2", Genre |-> "house", Parent |-> "J00", Related |-> <<>>],
    [Code |-> "J03", Hex |-> "0xD3", Genre |-> "techno", Parent |-> "J00", Related |-> <<>>],
    [Code |-> "J04", Hex |-> "0xD4", Genre |-> "disco", Parent |-> "J00", Related |-> <<>>],
    [Code |-> "J05", Hex |-> "0xD5", Genre |-> "", Parent |-> "None", Related |-> <<>>],
    [Code |-> "J06", Hex |-> "0xD6", Genre |-> "", Parent |-> "None", Related |-> <<>>],
    [Code |-> "J07", Hex |-> "0xD7", Genre |-> "", Parent |-> "None", Related |-> <<>>],
    [Code |-> "J08", Hex |-> "0xD8", Genre |-> "", Parent |-> "None", Related |-> <<>>],
    [Code |-> "J09", Hex |-> "0xD9", Genre |-> "", Parent |-> "None", Related |-> <<>>],
    [Code |-> "J10", Hex |-> "0xDA", Genre |-> "", Parent |-> "None", Related |-> <<>>],
    [Code |-> "J11", Hex |-> "0xDB", Genre |-> "", Parent |-> "None", Related |-> <<>>],
    [Code |-> "J12", Hex |-> "0xDC", Genre |-> "", Parent |-> "None", Related |-> <<>>],
    [Code |-> "J13", Hex |-> "0xDD", Genre |-> "", Parent |-> "None", Related |-> <<>>],
    [Code |-> "J14", Hex |-> "0xDE", Genre |-> "", Parent |-> "None", Related |-> <<>>],
    [Code |-> "J15", Hex |-> "0xDF", Genre |-> "", Parent |-> "None", Related |-> <<>>],
    [Code |-> "J16", Hex |-> "0xE0", Genre |-> "", Parent |-> "None", Related |-> <<>>],
    [Code |-> "J17", Hex |-> "0xE1", Genre |-> "", Parent |-> "None", Related |-> <<>>],
    [Code |-> "J18", Hex |-> "0xE2", Genre |-> "", Parent |-> "None", Related |-> <<>>],
    [Code |-> "J19", Hex |-> "0xE3", Genre |-> "", Parent |-> "None", Related |-> <<>>],
    [Code |-> "J20", Hex |-> "0xE4", Genre |-> "", Parent |-> "None", Related |-> <<>>],
    [Code |-> "J21", Hex |-> "0xE5", Genre |-> "", Parent |-> "None", Related |-> <<>>],
    [Code |-> "J22", Hex |-> "0xE6", Genre |-> "", Parent |-> "None", Related |-> <<>>],
    [Code |-> "J23", Hex |-> "0xE7", Genre |-> "", Parent |-> "None", Related |-> <<>>],
    [Code |-> "K00", Hex |-> "0xE8", Genre |-> "classical", Parent |-> "None", Related |-> <<>>],
    [Code |-> "K01", Hex |-> "0xE9", Genre |-> "orchestral", Parent |-> "K00", Related |-> <<>>],
    [Code |-> "K02", Hex |-> "0xEA", Genre |-> "opera", Parent |-> "K00", Related |-> <<>>],
    [Code |-> "K03", Hex |-> "0xEB", Genre |-> "", Parent |-> "None", Related |-> <<>>],
    [Code |-> "K04", Hex |-> "0xEC", Genre |-> "", Parent |-> "None", Related |-> <<>>],
    [Code |-> "K05", Hex |-> "0xED", Genre |-> "", Parent |-> "None", Related |-> <<>>],
    [Code |-> "K06", Hex |-> "0xEE", Genre |-> "", Parent |-> "None", Related |-> <<>>],
    [Code |-> "K07", Hex |-> "0xEF", Genre |-> "piano", Parent |-> "K00", Related |-> <<>>],
    [Code |-> "K08", Hex |-> "0xF0", Genre |-> "", Parent |-> "None", Related |-> <<>>],
    [Code |-> "K09", Hex |-> "0xF1", Genre |-> "", Parent |-> "None", Related |-> <<>>],
    [Code |-> "K10", Hex |-> "0xF2", Genre |-> "", Parent |-> "None", Related |-> <<>>],
    [Code |-> "K11", Hex |-> "0xF3", Genre |-> "", Parent |-> "None", Related |-> <<>>],
    [Code |-> "K12", Hex |-> "0xF4", Genre |-> "", Parent |-> "None", Related |-> <<>>],
    [Code |-> "K13", Hex |-> "0xF5", Genre |-> "", Parent |-> "None", Related |-> <<>>],
    [Code |-> "K14", Hex |-> "0xF6", Genre |-> "", Parent |-> "None", Related |-> <<>>],
    [Code |-> "K15", Hex |-> "0xF7", Genre |-> "", Parent |-> "None", Related |-> <<>>],
    [Code |-> "K16", Hex |-> "0xF8", Genre |-> "", Parent |-> "None", Related |-> <<>>],
    [Code |-> "K17", Hex |-> "0xF9", Genre |-> "", Parent |-> "None", Related |-> <<>>],
    [Code |-> "K18", Hex |-> "0xFA", Genre |-> "", Parent |-> "None", Related |-> <<>>],
    [Code |-> "K19", Hex |-> "0xFB", Genre |-> "", Parent |-> "None", Related |-> <<>>],
    [Code |-> "K20", Hex |-> "0xFC", Genre |-> "", Parent |-> "None", Related |-> <<>>],
    [Code |-> "K21", Hex |-> "0xFD", Genre |-> "", Parent |-> "None", Related |-> <<>>],
    [Code |-> "K22", Hex |-> "0xFE", Genre |-> "", Parent |-> "None", Related |-> <<>>],
    [Code |-> "K23", Hex |-> "0xFF", Genre |-> "", Parent |-> "None", Related |-> <<>>]
  >>

(* ------------------------------------------------------------------ *)
(* Python built-ins used by the code                                    *)
(* ------------------------------------------------------------------ *)
UpperChars == "ABCDEFGHIJKLMNOPQRSTUVWXYZ"

LowerChars == "abcdefghijklmnopqrstuvwxyz"

Min(a, b) == IF a <= b THEN a ELSE b

Max(a, b) == IF a >= b THEN a ELSE b

UpperSet == {SubSeq(UpperChars, i, i) : i \in 1..Len(UpperChars)}

(* the lower-case letter of every upper-case letter *)
LowerTable ==
  [c \in UpperSet |->
     SubSeq(LowerChars, CHOOSE i \in 1..Len(UpperChars) : SubSeq(UpperChars, i, i) = c,
                        CHOOSE i \in 1..Len(UpperChars) : SubSeq(UpperChars, i, i) = c)]

(* one character of str.lower() *)
LowerChar(c) == IF c \in UpperSet THEN LowerTable[c] ELSE c

(* F applied to the value of v, which is computed once *)
Let(v, F(_)) == CHOOSE r \in {F(x) : x \in {v}} : TRUE

RECURSIVE LowerFrom(_, _)
(* the characters of s from position i on, each in lower case *)
LowerFrom(s, i) ==
  IF i > Len(s) THEN ""
  ELSE LowerChar(SubSeq(s, i, i)) \o LowerFrom(s, i + 1)

(* str.lower() *)
Lower(s) == LowerFrom(s, 1)

RECURSIVE LStrip(_)
LStrip(s) ==
  IF Len(s) > 0 /\ SubSeq(s, 1, 1) = " " THEN LStrip(SubSeq(s, 2, Len(s))) ELSE s

RECURSIVE RStrip(_)
RStrip(s) ==
  IF Len(s) > 0 /\ SubSeq(s, Len(s), Len(s)) = " "
  THEN RStrip(SubSeq(s, 1, Len(s) - 1)) ELSE s

(* str.strip() *)
Strip(s) == RStrip(LStrip(s))

(* the slice s[:n] of a list or a string *)
SliceTo(s, n) ==
  IF n >= 0 THEN SubSeq(s, 1, Min(n, Len(s)))
  ELSE SubSeq(s, 1, Max(Len(s) + n, 0))

RECURSIVE Remove0x(_)
(* str.replace('0x', '') *)
Remove0x(s) ==
  IF Len(s) = 0 THEN ""
  ELSE IF Len(s) >= 2 /\ SubSeq(s, 1, 2) = "0x" THEN Remove0x(SubSeq(s, 3, Len(s)))
  ELSE SubSeq(s, 1, 1) \o Remove0x(SubSeq(s, 2, Len(s)))

(* x in list *)
InSeq(x, s) == \E i \in 1..Len(s) : s[i] = x

(* ------------------------------------------------------------------ *)
(* anal_M3U.py: synonyms, normalize_genre                               *)
(* ------------------------------------------------------------------ *)
genre_synonyms_chained ==
  << [key |-> "hiphop", value |-> "hip hop"],
     [key |-> "hip hop", value |-> "hip-hop"],
     [key |-> "hip-hop/rap", value |-> "hip-hop"],
     [key |-> "rap", value |-> "hip hop"],
     [key |-> "rhythm & blues", value |-> "r&b"],
     [key |-> "rhythm and blues", value |-> "r&b"],
     [key |-> "rock-n-roll", value |-> "rock and roll"],
     [key |-> "rock and roll", value |-> "rock & roll"],
     [key |-> "punk rock", value |-> "punk"],
     [key |-> "alternative", value |-> "alternative rock"] >>

genre_synonyms ==
  << [key |-> "hiphop", value |-> "hip-hop"],
     [key |-> "hip hop", value |-> "hip-hop"],
     [key |-> "hip-hop/rap", value |-> "hip-hop"],
     [key |-> "rap", value |-> "hip-hop"],
     [key |-> "rhythm & blues", value |-> "r&b"],
     [key |-> "rhythm and blues", value |-> "r&b"],
     [key |-> "rock-n-roll", value |-> "rock & roll"],
     [key |-> "rock and roll", value |-> "rock & roll"],
     [key |-> "punk rock", value |-> "punk"],
     [key |-> "alternative", value |-> "alternative rock"] >>

(* value['Genre'].lower() of every slot, in slot order *)
GenreLower == [i \in 1..Len(genre_mapping) |-> Lower(genre_mapping[i].Genre)]

(* the set of value['Genre'].lower() over the slots *)
GenreNameSet == {GenreLower[i] : i \in 1..Len(genre_mapping)}

(* any(value['Genre'].lower() == g for value in genre_mapping.values()) *)
InGenreMapping(g) == g \in GenreNameSet

(* position (from 1) of the first slot with a given lower-cased name *)
FirstSlot ==
  [g \in GenreNameSet |->
     CHOOSE i \in 1..Len(genre_mapping) :
       /\ GenreLower[i] = g
       /\ \A j \in 1..(i - 1) : GenreLower[j] # g]

normalize_genre(genre) ==
  LET genre_lower == Lower(genre)
  IN  IF \E i \in 1..Len(genre_synonyms) : genre_synonyms[i].key = genre_lower
      THEN LET i == CHOOSE i \in 1..Len(genre_synonyms) : genre_synonyms[i].key = genre_lower
           IN  genre_synonyms[i].value
      ELSE genre_lower

(* ------------------------------------------------------------------ *)
(* anal_M3U.py: combine_and_prioritize_genres_refined                   *)
(* ------------------------------------------------------------------ *)
(* the literal 5 of the slices in combine_and_prioritize_genres_refined *)
CombineLimit == 5

(* d[g] = d.get(g, 0) + 1 on an insertion-ordered dict *)
Increment(d, g) ==
  IF \E i \in 1..Len(d) : d[i].genre = g
  THEN [i \in 1..Len(d) |-> IF d[i].genre = g
                            THEN [genre |-> g, count |-> d[i].count + 1]
                            ELSE d[i]]
  ELSE Append(d, [genre |-> g, count |-> 1])

RECURSIVE CountGenresAll(_, _)
(* the loop counting every non-empty string, in the taxonomy or not *)
CountGenresAll(all_genres, d) ==
  IF all_genres = <<>> THEN d
  ELSE LET genre == Head(all_genres)
           normalized_genre == normalize_genre(genre)
       IN  IF genre # ""
           THEN CountGenresAll(Tail(all_genres), Increment(d, normalized_genre))
           ELSE CountGenresAll(Tail(all_genres), d)

RECURSIVE CountGenres(_, _)
(* the loop over all_genres: the tally of the normalised taxonomy genres *)
CountGenres(all_genres, d) ==
  IF all_genres = <<>> THEN d
  ELSE LET genre == Head(all_genres)
           normalized_genre == normalize_genre(genre)
       IN  IF genre # "" /\ InGenreMapping(normalized_genre)
           THEN CountGenres(Tail(all_genres), Increment(d, normalized_genre))
           ELSE CountGenres(Tail(all_genres), d)

(* [genre for genre, count in d.items() if count > 1] *)
MultiSource(d) ==
  LET sel == SelectSeq(d, LAMBDA e : e.count > 1)
  IN  [i \in 1..Len(sel) |-> sel[i].genre]

(* [genre for genre, count in d.items() if count == 1] *)
SingleSource(d) ==
  LET sel == SelectSeq(d, LAMBDA e : e.count = 1)
  IN  [i \in 1..Len(sel) |-> sel[i].genre]

(* the tally of the artist started anew by every call *)
UpdateArtistCountReset(agc, artist, all_genres) ==
  LET key == Lower(artist)
      counted == CountGenres(all_genres, <<>>)
  IN  IF counted = <<>> THEN agc
      ELSE IF \E i \in 1..Len(agc) : agc[i].artist = key
      THEN [i \in 1..Len(agc) |->
              IF agc[i].artist = key THEN [artist |-> key, genres |-> counted]
              ELSE agc[i]]
      ELSE Append(agc, [artist |-> key, genres |-> counted])

(* artist_genre_count[artist][g] += 1 for every counted genre of the call *)
UpdateArtistCount(agc, artist, all_genres) ==
  LET key == Lower(artist)
      counted == CountGenres(all_genres, <<>>)
  IN  IF counted = <<>> THEN agc
      ELSE IF \E i \in 1..Len(agc) : agc[i].artist = key
      THEN [i \in 1..Len(agc) |->
              IF agc[i].artist = key
              THEN [artist |-> key, genres |-> CountGenres(all_genres, agc[i].genres)]
              ELSE agc[i]]
      ELSE Append(agc, [artist |-> key, genres |-> counted])

combine_unbounded(embedded_genre, last_fm_genres, spotify_genres, musicbrainz_genres) ==
  LET all_genres == <<embedded_genre>> \o last_fm_genres \o spotify_genres
                      \o musicbrainz_genres
      genre_count == CountGenres(all_genres, <<>>)
  IN  MultiSource(genre_count) \o SingleSource(genre_count)

(* the list returned by combine_and_prioritize_genres_refined *)
combine_and_prioritize_genres_refined(embedded_genre, last_fm_genres, spotify_genres, musicbrainz_genres) ==
  LET all_genres == <<embedded_genre>> \o last_fm_genres \o spotify_genres
                      \o musicbrainz_genres
      genre_count == CountGenres(all_genres, <<>>)
      multi_source_genres == MultiSource(genre_count)
      single_source_genres == SingleSource(genre_count)
      first == SliceTo(multi_source_genres, CombineLimit)
      single_source_filtered ==
        SelectSeq(single_source_genres, LAMBDA g : InGenreMapping(Lower(g)))
      combined_genres ==
        first \o SliceTo(single_source_filtered, CombineLimit - Len(first))
  IN  SliceTo(combined_genres, CombineLimit)

(* ------------------------------------------------------------------ *)
(* anal_M3U.py: find_closest_genre_matches                              *)
(* ------------------------------------------------------------------ *)
(* sorted_genres[:5] *)
SortedLimit == 5

(* the 10 of len(spawnre_hex) >= 10 and of spawnre_hex[:10] *)
HexLimit == 10

(* Index (from 0) of the first slot whose name is g, ignoring case;       *)
(* len(genre_mapping) when there is none: the sort key.                   *)
OrderIndex(g) ==
  LET gl == Lower(g)
  IN  IF InGenreMapping(gl) THEN FirstSlot[gl] - 1 ELSE Len(genre_mapping)

RECURSIVE InsertByKeyDescending(_, _)
(* the comparison of the sort turned round *)
InsertByKeyDescending(s, x) ==
  IF s = <<>> THEN <<x>>
  ELSE IF OrderIndex(Head(s)) >= OrderIndex(x)
       THEN <<Head(s)>> \o InsertByKeyDescending(Tail(s), x)
       ELSE <<x>> \o s

RECURSIVE InsertByKey(_, _)
(* x put into the sorted list s after every element whose key is <= its own *)
InsertByKey(s, x) ==
  IF s = <<>> THEN <<x>>
  ELSE IF OrderIndex(Head(s)) <= OrderIndex(x)
       THEN <<Head(s)>> \o InsertByKey(Tail(s), x)
       ELSE <<x>> \o s

(* the list left in the order of its sources *)
SortNotDone(genres, acc) == acc \o genres

RECURSIVE SortByOrderIndex(_, _)
(* sorted(genres, key=...): stable, ascending slot index *)
SortByOrderIndex(genres, acc) ==
  IF genres = <<>> THEN acc
  ELSE SortByOrderIndex(Tail(genres), InsertByKey(acc, Head(genres)))

(* a plausible slip in the table: the second slot repeats the first byte *)
HexOfClash(k) == IF k = 2 THEN genre_mapping[1].Hex ELSE genre_mapping[k].Hex

(* genre_mapping[code]['Hex'] of the slot at position k *)
HexOf(k) == genre_mapping[k].Hex

RECURSIVE MatchLoopKeepUnknown(_, _, _)
(* the loop keeping a candidate that no slot names *)
MatchLoopKeepUnknown(sorted_genres, matched_genres, spawnre_hex) ==
  IF sorted_genres = <<>>
  THEN [matched_genres |-> matched_genres, spawnre_hex |-> spawnre_hex]
  ELSE LET genre == Head(sorted_genres)
           found == InGenreMapping(Lower(genre))
           k == OrderIndex(genre) + 1
           hex1 == IF found THEN spawnre_hex \o Remove0x(HexOf(k)) ELSE spawnre_hex
           matched1 == Append(matched_genres,
                              IF found THEN genre_mapping[k].Genre ELSE genre)
       IN  IF Len(hex1) >= HexLimit
           THEN [matched_genres |-> matched1, spawnre_hex |-> hex1]
           ELSE MatchLoopKeepUnknown(Tail(sorted_genres), matched1, hex1)

RECURSIVE MatchLoop(_, _, _)
(* for genre in sorted_genres: ... with both break statements *)
MatchLoop(sorted_genres, matched_genres, spawnre_hex) ==
  IF sorted_genres = <<>>
  THEN [matched_genres |-> matched_genres, spawnre_hex |-> spawnre_hex]
  ELSE LET genre == Head(sorted_genres)
           gl == Lower(genre)
           found == InGenreMapping(gl)
           k == OrderIndex(genre) + 1
           hex1 == IF found THEN spawnre_hex \o Remove0x(HexOf(k))
                   ELSE spawnre_hex
           matched1 == IF found THEN Append(matched_genres, genre_mapping[k].Genre)
                       ELSE matched_genres
       IN  IF Len(hex1) >= HexLimit
           THEN [matched_genres |-> matched1, spawnre_hex |-> hex1]
           ELSE MatchLoop(Tail(sorted_genres), matched1, hex1)

find_closest_untruncated(genres) ==
  MatchLoop(SortByOrderIndex(genres, <<>>), <<>>, "x")

(* (matched_genres, spawnre_hex) returned by find_closest_genre_matches *)
find_closest_genre_matches(genres) ==
  LET sorted_genres == SliceTo(SortByOrderIndex(genres, <<>>), SortedLimit)
      r == MatchLoop(sorted_genres, <<>>, "x")
  IN  [matched_genres |-> r.matched_genres,
       spawnre_hex |-> SliceTo(r.spawnre_hex, HexLimit)]

(* ------------------------------------------------------------------ *)
(* State                                                                *)
(* ------------------------------------------------------------------ *)
VARIABLES
  pc,                  \* position of the run or call being modelled
  raw, once, twice,    \* normalize_genre: its argument, its result, the result of the result
  embedded_genre, last_fm_genres, spotify_genres, musicbrainz_genres, artist_name,
                       \* arguments of combine_and_prioritize_genres_refined
  artist_genre_count,  \* the per-artist tally the call updates
  combined_genres,     \* its return value
  genres,              \* argument of find_closest_genre_matches
  matched_genres, spawnre_hex, \* its return values
  data,                \* analyze_m3u: the track records built so far
  resolved,            \* the closest_genres list of every record, in record order
  artist_spawnre_tags, \* analyze_m3u: the tag of every artist
  lookup,              \* the genre lookup running: "lastfm", "spotify", "musicbrainz"
  lookup_artist,       \* its artist argument
  credentials,         \* whether the API key or the Spotify client is given
  attempt,             \* the attempts made so far
  responses,           \* what the service answered, attempt by attempt
  lookup_result,       \* the list the lookup returned
  exception,           \* the exception that left the lookup, "" when none did
  spotify_genre_cache, musicbrainz_genre_cache, \* the module-level caches
  df,                  \* create_clusters: the rows of the main table
  loved_df,            \* the rows of the loved table, <<>> when there is none
  loved_categories,    \* the requested loved categories, <<>> for None
  clusters,            \* the mapping genre -> paths, in insertion order
  mapping_used,        \* order_clusters_by_relationships: its genre_mapping argument
  ordered_genres,      \* its return value
  cluster,             \* curate_cluster: the list it is given
  main_df,             \* the rows it looks paths up in
  features_df,         \* the feature rows, by unique_track
  cluster_copy,        \* what is left in the list while its loop runs
  curated_order,       \* its return value
  user_choice,         \* generate_curated_m3u: the answer to "modify the genre order?"
  new_order_input,     \* what is entered as preferred genre order, and how
  ordered_genres_user, \* the merged order, <<>> when none is built
  ordered_clusters,    \* the genre of every pair of ordered_clusters, in order
  genre_order_file,    \* genre_order.json: the saved preferred_genre_order
  m3u,                 \* the curated playlist file: the "# Genre:" lines written
  tracks,              \* copy_tracks_with_sequence: the track lines of the playlist
  max_size_gb,         \* its max_size_gb argument
  dry_run,             \* its dry_run argument
  idx,                 \* the number of tracks the loop has taken
  total_copied_size, success_count, failure_count \* its counters

normVars == <<raw, once, twice>>

combineVars == <<embedded_genre, last_fm_genres, spotify_genres, musicbrainz_genres,
                 artist_name, artist_genre_count, combined_genres>>

resolveVars == <<genres, matched_genres, spawnre_hex>>

lookupVars == <<lookup, lookup_artist, credentials, attempt, responses, lookup_result,
                exception, spotify_genre_cache, musicbrainz_genre_cache>>

analyzeVars == <<data, resolved, artist_spawnre_tags, lookupVars>>

tableVars == <<df, loved_df, loved_categories>>

orderVars == <<mapping_used, ordered_genres>>

curateVars == <<cluster, main_df, features_df, cluster_copy, curated_order>>

mergeVars == <<user_choice, new_order_input, ordered_genres_user, ordered_clusters,
               genre_order_file, m3u>>

copyVars == <<tracks, max_size_gb, dry_run, idx, total_copied_size, success_count,
              failure_count>>

playlistVars == <<tableVars, clusters, orderVars, curateVars, mergeVars, copyVars>>

vars == <<pc, normVars, combineVars, resolveVars, analyzeVars, playlistVars>>

(* ------------------------------------------------------------------ *)
(* Bounds and input sets                                                *)
(* ------------------------------------------------------------------ *)
(* longest list one external source returns *)
MaxSourceLen == 2

(* longest candidate list given to find_closest_genre_matches *)
MaxCandidates == 6

SeqsUpTo(S, n) == UNION {[1..k -> S] : k \in 0..n}

UpperChar(c) ==
  IF \E i \in 1..Len(LowerChars) : SubSeq(LowerChars, i, i) = c
  THEN LET i == CHOOSE i \in 1..Len(LowerChars) : SubSeq(LowerChars, i, i) = c
       IN  SubSeq(UpperChars, i, i)
  ELSE c

RECURSIVE Upper(_)
Upper(s) ==
  IF Len(s) = 0 THEN ""
  ELSE UpperChar(SubSeq(s, 1, 1)) \o Upper(SubSeq(s, 2, Len(s)))

EmbeddedTags == {"", "rock", "Folk", "polka"}

LastfmTags == {"rap", "jazz"}

SpotifyTags == {"Rock", "blues"}

MusicbrainzTags == {"blues", "pop"}

ArtistNames == {"Artist A", "JAZZ"}

(* artist_genre_count as earlier tracks of the run can have left it *)
PriorTallies ==
  { <<>>,
    << [artist |-> "jazz", genres |-> <<[genre |-> "jazz", count |-> 1]>>],
       [artist |-> "artist b", genres |-> <<[genre |-> "rock", count |-> 2]>>] >> }

CandidateTags == {"Rock", "pop rock", "", "polka"}

NormalizeWords ==
  {genre_synonyms[i].key : i \in 1..Len(genre_synonyms)}
    \cup {genre_synonyms[i].value : i \in 1..Len(genre_synonyms)}
    \cup {"rock", "jazz", "polka", "", "grunge", "folk"}

NormalizeInputs ==
  NormalizeWords \cup {Upper(w) : w \in NormalizeWords}
    \cup {" " \o w \o " " : w \in NormalizeWords}

NoNormalize == raw = "" /\ once = "" /\ twice = ""

NoCombine ==
  /\ embedded_genre = "" /\ last_fm_genres = <<>> /\ spotify_genres = <<>>
  /\ musicbrainz_genres = <<>> /\ artist_name = "" /\ artist_genre_count = <<>>
  /\ combined_genres = <<>>

NoResolve == genres = <<>> /\ matched_genres = <<>> /\ spawnre_hex = ""

NoLookup ==
  /\ lookup = "" /\ lookup_artist = "" /\ credentials = FALSE /\ attempt = 0
  /\ responses = <<>> /\ lookup_result = <<>> /\ exception = ""
  /\ spotify_genre_cache = <<>> /\ musicbrainz_genre_cache = <<>>

NoAnalyze == data = <<>> /\ resolved = <<>> /\ artist_spawnre_tags = <<>> /\ NoLookup

NoTable == df = <<>> /\ loved_df = <<>> /\ loved_categories = <<>>

NoOrder == mapping_used = "" /\ ordered_genres = <<>>

NoCurate ==
  /\ cluster = <<>> /\ main_df = <<>> /\ features_df = {} /\ cluster_copy = <<>>
  /\ curated_order = <<>>

NoFile == [exists |-> FALSE, order |-> <<>>]

NoInput == [kind |-> "none", entries |-> <<>>]

NotWritten == [written |-> FALSE, genres |-> <<>>]

NoMerge ==
  /\ user_choice = "" /\ new_order_input = NoInput /\ ordered_genres_user = <<>>
  /\ ordered_clusters = <<>> /\ genre_order_file = NoFile /\ m3u = NotWritten

NoSize == [given |-> FALSE, gb |-> 0]

NoCopy ==
  /\ tracks = <<>> /\ max_size_gb = NoSize /\ dry_run = FALSE /\ idx = 0
  /\ total_copied_size = 0 /\ success_count = 0 /\ failure_count = 0

NoPlaylist == NoTable /\ clusters = <<>> /\ NoOrder /\ NoCurate /\ NoMerge /\ NoCopy

(* ------------------------------------------------------------------ *)
(* normalize_genre applied to a string and then to its own result       *)
(* ------------------------------------------------------------------ *)
NormalizeInit ==
  /\ pc = "start"
  /\ raw \in NormalizeInputs /\ once = "" /\ twice = ""
  /\ NoCombine /\ NoResolve /\ NoAnalyze /\ NoPlaylist

NormalizeOnce ==
  /\ pc = "start"
  /\ once' = normalize_genre(raw)
  /\ pc' = "once"
  /\ UNCHANGED <<raw, twice, combineVars, resolveVars, analyzeVars, playlistVars>>

NormalizeTwice ==
  /\ pc = "once"
  /\ twice' = normalize_genre(once)
  /\ pc' = "twice"
  /\ UNCHANGED <<raw, once, combineVars, resolveVars, analyzeVars, playlistVars>>

NormalizeNext == NormalizeOnce \/ NormalizeTwice

SpecNormalize == NormalizeInit /\ [][NormalizeNext]_vars

(* ------------------------------------------------------------------ *)
(* One track of analyze_m3u: combine the sources, then resolve          *)
(* ------------------------------------------------------------------ *)
CombineInit ==
  /\ pc = "fetched"
  /\ embedded_genre \in EmbeddedTags
  /\ last_fm_genres \in SeqsUpTo(LastfmTags, MaxSourceLen)
  /\ spotify_genres \in SeqsUpTo(SpotifyTags, MaxSourceLen)
  /\ musicbrainz_genres \in SeqsUpTo(MusicbrainzTags, MaxSourceLen)
  /\ artist_name \in ArtistNames
  /\ artist_genre_count \in PriorTallies
  /\ combined_genres = <<>>
  /\ NoNormalize /\ NoResolve /\ NoAnalyze /\ NoPlaylist

Combine ==
  /\ pc = "fetched"
  /\ combined_genres' = combine_and_prioritize_genres_refined(
                          embedded_genre, last_fm_genres, spotify_genres,
                          musicbrainz_genres)
  /\ artist_genre_count' = UpdateArtistCount(
                             artist_genre_count, Lower(artist_name),
                             <<embedded_genre>> \o last_fm_genres \o spotify_genres
                               \o musicbrainz_genres)
  /\ pc' = "combined"
  /\ UNCHANGED <<embedded_genre, last_fm_genres, spotify_genres, musicbrainz_genres,
                 artist_name, normVars, resolveVars, analyzeVars, playlistVars>>

Resolve ==
  /\ pc = "combined"
  /\ LET r == find_closest_genre_matches(combined_genres)
     IN  /\ genres' = combined_genres
         /\ matched_genres' = r.matched_genres
         /\ spawnre_hex' = r.spawnre_hex
  /\ pc' = "resolved"
  /\ UNCHANGED <<normVars, combineVars, analyzeVars, playlistVars>>

CombineNext == Combine \/ Resolve

SpecCombine == CombineInit /\ [][CombineNext]_vars

(* ------------------------------------------------------------------ *)
(* find_closest_genre_matches on an arbitrary candidate list            *)
(* ------------------------------------------------------------------ *)
ResolveInit ==
  /\ pc = "candidates"
  /\ genres \in SeqsUpTo(CandidateTags, MaxCandidates)
  /\ matched_genres = <<>> /\ spawnre_hex = ""
  /\ NoNormalize /\ NoCombine /\ NoAnalyze /\ NoPlaylist

ResolveCall ==
  /\ pc = "candidates"
  /\ LET r == find_closest_genre_matches(genres)
     IN  /\ matched_genres' = r.matched_genres
         /\ spawnre_hex' = r.spawnre_hex
  /\ pc' = "matched"
  /\ UNCHANGED <<genres, normVars, combineVars, analyzeVars, playlistVars>>

ResolveNext == ResolveCall

SpecResolve == ResolveInit /\ [][ResolveNext]_vars

(* ------------------------------------------------------------------ *)
(* Properties of the reconciler (SpecCombine)                           *)
(* ------------------------------------------------------------------ *)
Range(q) == {q[i] : i \in 1..Len(q)}

(* the raw strings of the four sources of the call, source by source *)
Sources == <<{embedded_genre}, Range(last_fm_genres), Range(spotify_genres),
             Range(musicbrainz_genres)>>

(* the named taxonomy genres *)
TaxonomyNames == GenreNameSet \ {""}

(* number of sources that return a raw string normalising to g *)
SourceCount(g) ==
  Cardinality({k \in 1..Len(Sources) :
                 \E r \in Sources[k] : r # "" /\ normalize_genre(r) = g})

(* position of g in the returned list, 0 when absent *)
PositionIn(q, g) ==
  IF \E i \in 1..Len(q) : q[i] = g
  THEN CHOOSE i \in 1..Len(q) : q[i] = g /\ \A j \in 1..(i - 1) : q[j] # g
  ELSE 0

Combined == pc \in {"combined", "resolved"}

(* C1: whatever the embedded genre, the three source lists and the artist *)
(* name are, the list returned by the reconciler has at most 5 elements.  *)
C1_ReconcilerBound == Combined => Len(combined_genres) <= 5

(* C1 witness: a call whose sources name more than 5 taxonomy genres.     *)
C1_Witness ==
  /\ pc = "combined"
  /\ Cardinality({g \in TaxonomyNames : SourceCount(g) >= 1}) > 5
  /\ Len(combined_genres) = 5

(* C2: a genre returned by at least two sources stands before every      *)
(* returned genre that exactly one source returns.                        *)
C2_MultiSourceFirst ==
  Combined =>
    \A G, H \in TaxonomyNames :
      (SourceCount(G) >= 2 /\ SourceCount(H) = 1 /\ PositionIn(combined_genres, H) > 0)
        => /\ PositionIn(combined_genres, G) > 0
           /\ PositionIn(combined_genres, G) < PositionIn(combined_genres, H)

(* the strings of the four sources of the call, in the order given *)
AllGenres == <<embedded_genre>> \o last_fm_genres \o spotify_genres \o musicbrainz_genres

(* number of non-empty source strings that normalise to g *)
OccurrenceCount(g) ==
  Cardinality({p \in 1..Len(AllGenres) :
                 AllGenres[p] # "" /\ normalize_genre(AllGenres[p]) = g})

(* C16: a genre that occurs exactly once across the sources and equals    *)
(* the artist's name, ignoring case, is not in the returned list.         *)
C16_ArtistNameExcluded ==
  Combined =>
    \A g \in TaxonomyNames :
      (OccurrenceCount(g) = 1 /\ Lower(g) = Lower(artist_name))
        => PositionIn(combined_genres, g) = 0

(* the count of genre g in the tally of artist a, 0 when there is none *)
TallyOf(agc, a, g) ==
  IF \E i \in 1..Len(agc) :
       agc[i].artist = a /\ \E j \in 1..Len(agc[i].genres) : agc[i].genres[j].genre = g
  THEN LET i == CHOOSE i \in 1..Len(agc) : agc[i].artist = a
           j == CHOOSE j \in 1..Len(agc[i].genres) : agc[i].genres[j].genre = g
       IN  agc[i].genres[j].count
  ELSE 0

(* the artists and the genres of a tally *)
TallyArtists(agc) == {agc[i].artist : i \in 1..Len(agc)}

TallyGenres(agc) ==
  UNION {{agc[i].genres[j].genre : j \in 1..Len(agc[i].genres)} : i \in 1..Len(agc)}

CombineStep == pc = "fetched" /\ pc' = "combined"

InputsKept ==
  /\ embedded_genre' = embedded_genre /\ last_fm_genres' = last_fm_genres
  /\ spotify_genres' = spotify_genres /\ musicbrainz_genres' = musicbrainz_genres
  /\ artist_name' = artist_name

C3_EncoderBound ==
  pc = "matched" => /\ Len(spawnre_hex) <= 10
                    /\ Len(spawnre_hex) >= 1
                    /\ SubSeq(spawnre_hex, 1, 1) = "x"

(* C3 witness: five candidates matched, so the cut at 10 characters acts. *)
C3_Witness == pc = "matched" /\ Len(matched_genres) = 5 /\ Len(spawnre_hex) = 10

(* C4: the hex string is "x" followed by the two hex digits of every      *)
(* returned genre, in order: 1 + 2n characters for n returned genres,     *)
(* and every pair decodes to the genre at its position.                   *)
C4_HexForm ==
  pc = "matched" =>
    /\ Len(spawnre_hex) = 1 + 2 * Len(matched_genres)
    /\ SubSeq(spawnre_hex, 1, 1) = "x"
    /\ \A i \in 1..Len(matched_genres) :
         \E k \in 1..Len(genre_mapping) :
           /\ genre_mapping[k].Genre = matched_genres[i]
           /\ SubSeq(genre_mapping[k].Hex, 3, 4) = SubSeq(spawnre_hex, 2 * i, 2 * i + 1)

(* the slots that carry a genre name *)
NamedSlots == {k \in 1..Len(genre_mapping) : genre_mapping[k].Genre # ""}

NamedHexDistinct == \A i, j \in NamedSlots : i # j => HexOf(i) # HexOf(j)

(* C11: any two distinct slots of genre_mapping that carry a genre name   *)
(* have different Hex values, so the bytes the encoder writes for two     *)
(* different named genres differ.                                         *)
C11_HexUnique == pc = "matched" => NamedHexDistinct

(* C11 witness: two different named genres were encoded, with two         *)
(* different bytes.                                                       *)
C11_Witness ==
  /\ pc = "matched"
  /\ Len(matched_genres) = 2
  /\ matched_genres[1] # "" /\ matched_genres[2] # ""
  /\ matched_genres[1] # matched_genres[2]
  /\ Len(spawnre_hex) = 5
  /\ SubSeq(spawnre_hex, 2, 3) # SubSeq(spawnre_hex, 4, 5)

(* position (from 1) of the first slot named g, ignoring case; 0 when no  *)
(* slot has that name                                                     *)
TaxonomyPosition(g) ==
  IF Lower(g) \in GenreNameSet THEN FirstSlot[Lower(g)] ELSE 0

(* the places of the candidate list that hold a name of the taxonomy *)
Placed == {p \in 1..Len(genres) : TaxonomyPosition(genres[p]) > 0}

(* the candidate list with the candidates at i and i + 1 exchanged *)
SwapNext(q, i) ==
  [p \in 1..Len(q) |-> IF p = i THEN q[i + 1] ELSE IF p = i + 1 THEN q[i] ELSE q[p]]

(* C12: the returned genres are the (at most five) candidates with the    *)
(* lowest taxonomy positions, each as often as it is a candidate, in      *)
(* ascending taxonomy position; exchanging two neighbouring candidates    *)
(* (and so, the candidate lists being all lists, any permutation)         *)
(* changes neither the genres nor the hex string.                         *)
C12_TaxonomyOrder ==
  pc = "matched" =>
    LET Below(k) == Cardinality({p \in Placed : TaxonomyPosition(genres[p]) < k})
        At(k) == Cardinality({p \in Placed : TaxonomyPosition(genres[p]) = k})
        Returned(k) == Cardinality({i \in 1..Len(matched_genres) :
                                      TaxonomyPosition(matched_genres[i]) = k})
    IN  /\ Len(matched_genres) = Min(5, Cardinality(Placed))
        /\ \A i \in 1..Len(matched_genres) :
             /\ TaxonomyPosition(matched_genres[i]) > 0
             /\ matched_genres[i] = genre_mapping[TaxonomyPosition(matched_genres[i])].Genre
        /\ \A i \in 1..(Len(matched_genres) - 1) :
             TaxonomyPosition(matched_genres[i]) <= TaxonomyPosition(matched_genres[i + 1])
        /\ \A p \in Placed :
             LET k == TaxonomyPosition(genres[p])
             IN  Returned(k) = Min(At(k), Max(0, 5 - Below(k)))
        /\ \A i \in 1..(Len(genres) - 1) :
             find_closest_genre_matches(SwapNext(genres, i))
               = [matched_genres |-> matched_genres, spawnre_hex |-> spawnre_hex]

(* C12 witness: six candidates of the taxonomy, not given in taxonomy     *)
(* order, of which five were returned.                                    *)
C12_Witness ==
  /\ pc = "matched"
  /\ Cardinality(Placed) = 6
  /\ \E p, q \in Placed :
       p < q /\ TaxonomyPosition(genres[p]) > TaxonomyPosition(genres[q])
  /\ Len(matched_genres) = 5

(* "rock" in g: the string g contains the substring rock *)
ContainsRock(g) ==
  \E i \in 1..(Len(g) - 3) : SubSeq(g, i, i + 3) = "rock"

C14_NothingMatched ==
  (pc = "matched" /\ \A p \in 1..Len(genres) : TaxonomyPosition(genres[p]) = 0)
    => matched_genres = <<>> /\ spawnre_hex = "x"

(* C14 witness: candidates were given, none of them known, and the call   *)
(* returned nothing but the marker.                                       *)
C14_Witness ==
  /\ pc = "matched"
  /\ Len(genres) >= 2
  /\ \A p \in 1..Len(genres) : genres[p] = "polka"
  /\ matched_genres = <<>> /\ spawnre_hex = "x"

(* the bytes, without 0x, of the slots that carry no genre name *)
PlaceholderBytes ==
  {Remove0x(HexOf(k)) : k \in (1..Len(genre_mapping)) \ NamedSlots}

(* the complete two-digit bytes of a hex string, after its marker *)
BytesOf(hex) == {SubSeq(hex, 2 * i, 2 * i + 1) : i \in 1..((Len(hex) - 1) \div 2)}

(* C15: a slot with an empty name is never selected: whatever the         *)
(* candidates are, an empty string among them included, no returned genre *)
(* is the empty name and no byte of the hex string is the byte of an      *)
(* unnamed slot; and the reconciler counts and returns no empty name.     *)
C15_PlaceholderNeverSelected ==
  /\ pc \in {"matched", "resolved"} =>
       /\ \A i \in 1..Len(matched_genres) : matched_genres[i] # ""
       /\ BytesOf(spawnre_hex) \cap PlaceholderBytes = {}
  /\ Combined =>
       /\ \A i \in 1..Len(combined_genres) : combined_genres[i] # ""
       /\ \A a \in 1..Len(artist_genre_count) :
            \A i \in 1..Len(artist_genre_count[a].genres) :
              artist_genre_count[a].genres[i].genre # ""

(* ------------------------------------------------------------------ *)
(* Properties of the normaliser (SpecNormalize)                         *)
(* ------------------------------------------------------------------ *)
(* C10: normalising a normalised genre changes nothing, and no synonym    *)
(* target is a synonym key.                                               *)
C10_NormalizeIdempotent ==
  /\ pc = "twice" => twice = once
  /\ pc = "twice" =>
       \A i, j \in 1..Len(genre_synonyms) : genre_synonyms[i].value # genre_synonyms[j].key

(* C10 witness: an upper-case synonym key was replaced by its target.     *)
C10_Witness == pc = "twice" /\ raw = "HIP HOP" /\ once = "hip-hop" /\ twice = "hip-hop"

(* ------------------------------------------------------------------ *)
(* anal_M3U.py: analyze_m3u without post, track by track, then the      *)
(* artist tags                                                          *)
(* ------------------------------------------------------------------ *)
(* longest playlist analysed *)
MaxTracks == 3

(* the genre columns written per source: spotify_genre_1..5 and so on *)
GenreColumns == 5

RunArtists == {"X", "x", "Y"}

(* what the tags of the file and the three lookups give for one track *)
TrackLookups ==
  { [embedded |-> "rock", lastfm |-> <<>>, spotify |-> <<>>, musicbrainz |-> <<>>],
    [embedded |-> "", lastfm |-> <<"rock", "blues">>, spotify |-> <<>>,
     musicbrainz |-> <<>>],
    [embedded |-> "jazz", lastfm |-> <<>>, spotify |-> <<>>, musicbrainz |-> <<>>],
    [embedded |-> "jazz", lastfm |-> <<>>, spotify |-> <<"jazz">>,
     musicbrainz |-> <<"jazz">>],
    [embedded |-> "", lastfm |-> <<"polka">>, spotify |-> <<>>, musicbrainz |-> <<>>] }

RECURSIVE Join(_)
(* ', '.join(list) *)
Join(list) ==
  IF list = <<>> THEN ""
  ELSE IF Len(list) = 1 THEN list[1]
  ELSE list[1] \o ", " \o Join(Tail(list))

(* max(d, key=d.get) breaking a tie towards the key inserted last *)
MostFrequentLast(d) ==
  LET i == CHOOSE i \in 1..Len(d) :
             /\ \A j \in 1..Len(d) : d[j].count <= d[i].count
             /\ \A j \in (i + 1)..Len(d) : d[j].count < d[i].count
  IN  d[i].genre

(* max(d, key=d.get): the first key, in insertion order, with the largest count *)
MostFrequent(d) ==
  LET i == CHOOSE i \in 1..Len(d) :
             /\ \A j \in 1..Len(d) : d[j].count <= d[i].count
             /\ \A j \in 1..(i - 1) : d[j].count < d[i].count
  IN  d[i].genre

(* the loop that fills artist_spawnre_tags *)
ArtistTags(agc) ==
  [i \in 1..Len(agc) |->
     [artist |-> agc[i].artist,
      tag |-> IF agc[i].genres # <<>> THEN MostFrequent(agc[i].genres) ELSE ""]]

(* artist_spawnre_tags.get(artist_lower, '') *)
TagOf(tags, artist_lower) ==
  IF \E i \in 1..Len(tags) : tags[i].artist = artist_lower
  THEN LET i == CHOOSE i \in 1..Len(tags) : tags[i].artist = artist_lower
       IN  tags[i].tag
  ELSE ""

AnalyzeInit ==
  /\ pc = "tracks"
  /\ data = <<>> /\ resolved = <<>> /\ artist_spawnre_tags = <<>> /\ NoLookup
  /\ NoNormalize /\ NoCombine /\ NoResolve /\ NoPlaylist

(* one pass of the loop over the playlist: lookups, combine, resolve, record *)
ProcessTrack(artist, t) ==
  /\ pc = "tracks"
  /\ Len(data) < MaxTracks
  /\ LET combined == combine_and_prioritize_genres_refined(
                       t.embedded, t.lastfm, t.spotify, t.musicbrainz)
         r == find_closest_genre_matches(combined)
     IN  /\ data' = Append(data,
                      [artist |-> artist,
                       embedded_genre |-> t.embedded,
                       last_FM_genre |-> SliceTo(t.lastfm, GenreColumns),
                       spotify_genre |-> SliceTo(t.spotify, GenreColumns),
                       musicbrainz_genre |-> SliceTo(t.musicbrainz, GenreColumns),
                       spawnre |-> Join(r.matched_genres),
                       spawnre_hex |-> r.spawnre_hex,
                       spawnre_tag |-> ""])
         /\ resolved' = Append(resolved, r.matched_genres)
  /\ artist_genre_count' = UpdateArtistCount(
                             artist_genre_count, Lower(artist),
                             <<t.embedded>> \o t.lastfm \o t.spotify \o t.musicbrainz)
  /\ UNCHANGED <<pc, artist_spawnre_tags, lookupVars, normVars, resolveVars,
                 embedded_genre, last_fm_genres, spotify_genres, musicbrainz_genres,
                 artist_name, combined_genres, playlistVars>>

(* the step looking the tags up under the artist name as it is written *)
AssignTagsAsWritten ==
  /\ pc = "tracks"
  /\ LET tags == ArtistTags(artist_genre_count)
     IN  /\ artist_spawnre_tags' = tags
         /\ data' = [i \in 1..Len(data) |->
                       [data[i] EXCEPT !.spawnre_tag = TagOf(tags, data[i].artist)]]
  /\ pc' = "tagged"
  /\ UNCHANGED <<resolved, lookupVars, normVars, combineVars, resolveVars, playlistVars>>

(* after the last track: the tag of every artist, stamped on every record *)
AssignTags ==
  /\ pc = "tracks"
  /\ LET tags == ArtistTags(artist_genre_count)
     IN  /\ artist_spawnre_tags' = tags
         /\ data' = [i \in 1..Len(data) |->
                       [data[i] EXCEPT !.spawnre_tag = TagOf(tags, Lower(data[i].artist))]]
  /\ pc' = "tagged"
  /\ UNCHANGED <<resolved, lookupVars, normVars, combineVars, resolveVars, playlistVars>>

AnalyzeNext ==
  \/ \E artist \in RunArtists, t \in TrackLookups : ProcessTrack(artist, t)
  \/ AssignTags

SpecAnalyze == AnalyzeInit /\ [][AnalyzeNext]_vars

(* ------------------------------------------------------------------ *)
(* Properties of the artist tag (SpecAnalyze)                           *)
(* ------------------------------------------------------------------ *)
RECURSIVE Flatten(_)
Flatten(lists) ==
  IF lists = <<>> THEN <<>> ELSE Head(lists) \o Flatten(Tail(lists))

(* the records of an artist, names compared ignoring case *)
TracksOf(a) == {i \in 1..Len(data) : Lower(data[i].artist) = Lower(a)}

(* a sequence restricted to the positions of a set, in order *)
Pick(q, S) ==
  LET F[i \in 0..Len(q)] ==
        IF i = 0 THEN <<>> ELSE IF i \in S THEN Append(F[i - 1], q[i]) ELSE F[i - 1]
  IN  F[Len(q)]

Occurrences(q, g) == Cardinality({k \in 1..Len(q) : q[k] = g})

(* g occurs in q at least as often as every other element, and before every *)
(* other element that occurs as often                                       *)
IsFirstMajority(q, g) ==
  /\ PositionIn(q, g) > 0
  /\ \A k \in 1..Len(q) :
       /\ Occurrences(q, q[k]) <= Occurrences(q, g)
       /\ Occurrences(q, q[k]) = Occurrences(q, g) => PositionIn(q, g) <= k

(* the tag that a list of genre occurrences calls for *)
TagMatches(tag, q) == IF q = <<>> THEN tag = "" ELSE IsFirstMajority(q, tag)

(* the flattened resolved lists of the tracks of an artist *)
ResolvedOf(a) == Flatten(Pick(resolved, TracksOf(a)))

(* every genre string the sources gave for the tracks of an artist, in the *)
(* order embedded, Last.fm, Spotify, MusicBrainz, normalised, the strings  *)
(* outside the taxonomy left out                                           *)
CountedOf(a) ==
  LET rawOf(i) == <<data[i].embedded_genre>> \o data[i].last_FM_genre
                    \o data[i].spotify_genre \o data[i].musicbrainz_genre
      all == Flatten(Pick([i \in 1..Len(data) |-> rawOf(i)], TracksOf(a)))
      norm == [k \in 1..Len(all) |-> normalize_genre(all[k])]
  IN  Pick(norm, {k \in 1..Len(all) : all[k] # "" /\ norm[k] \in TaxonomyNames})

(* C9 as claimed: after the run the tag of every artist is the first most  *)
(* frequent genre of the flattened resolved lists of the artist's tracks,  *)
(* the empty string when no genre was resolved.                            *)
C9_TagFromResolved ==
  pc = "tagged" =>
    \A i \in 1..Len(data) : TagMatches(data[i].spawnre_tag, ResolvedOf(data[i].artist))

(* C9 amended: after the run the tag of every artist is the first most     *)
(* frequent genre among all taxonomy genres the sources named for the      *)
(* artist's tracks, every occurrence in every source counted, the empty    *)
(* string when there is none.                                              *)
C9_TagFromSourceCounts ==
  pc = "tagged" =>
    \A i \in 1..Len(data) : TagMatches(data[i].spawnre_tag, CountedOf(data[i].artist))

(* C9 witness: three tracks of one artist resolved to [rock], [rock, blues] *)
(* and [jazz], tagged rock.                                                 *)
C9_Witness ==
  /\ pc = "tagged"
  /\ resolved = << <<"rock">>, <<"rock", "blues">>, <<"jazz">> >>
  /\ \A i \in 1..Len(data) : Lower(data[i].artist) = "x" /\ data[i].spawnre_tag = "rock"

(* ------------------------------------------------------------------ *)
(* M3U_from_CSV.py: create_clusters                                     *)
(* ------------------------------------------------------------------ *)
(* A cell of a table read by load_csv is a string or, when the field is   *)
(* empty, NaN (a float, which is true in a boolean context).              *)
Str(x) == [isstr |-> TRUE, s |-> x]

NaN == [isstr |-> FALSE, s |-> "nan"]

(* bool(cell) *)
Truthy(cell) == IF cell.isstr THEN cell.s # "" ELSE TRUE

(* position of a genre among the keys of clusters, 0 when it is no key *)
KeyIndex(cl, genre) ==
  IF \E k \in 1..Len(cl) : cl[k].genre = genre
  THEN CHOOSE k \in 1..Len(cl) : cl[k].genre = genre
  ELSE 0

(* the cluster key of a row: lines 79 and 80 *)
RowGenre(row) ==
  LET cell == IF Truthy(row.spawnre_tag) THEN row.spawnre_tag ELSE row.embedded_genre
  IN  IF cell.isstr THEN Lower(Strip(cell.s)) ELSE "unknown"

(* loved_options[category].iloc[index] for one requested category *)
LovedFlag(lrow, category) ==
  CASE category = "tracks" -> Lower(lrow.loved_tracks) = "yes"
    [] category = "albums" -> Lower(lrow.loved_albums) = "yes"
    [] category = "artists" -> Lower(lrow.loved_artists) = "yes"
    [] OTHER -> FALSE

(* include_track of row number index *)
IncludeTrack(ldf, categories, index) ==
  IF ldf # <<>> /\ categories # <<>>
  THEN \E c \in 1..Len(categories) : LovedFlag(ldf[index], categories[c])
  ELSE TRUE

RECURSIVE ClusterRowsUnfiltered(_, _, _, _, _)
ClusterRowsUnfiltered(rows, ldf, categories, index, cl) ==
  IF index > Len(rows) THEN cl
  ELSE LET genre == RowGenre(rows[index])
           cl1 == IF KeyIndex(cl, genre) = 0
                  THEN Append(cl, [genre |-> genre, tracks |-> <<>>])
                  ELSE cl
           k == KeyIndex(cl1, genre)
           cl2 == [cl1 EXCEPT ![k].tracks = Append(@, rows[index].file_path)]
       IN  ClusterRowsUnfiltered(rows, ldf, categories, index + 1, cl2)

RECURSIVE ClusterRows(_, _, _, _, _)
(* the loop over df.iterrows() from row number index on *)
ClusterRows(rows, ldf, categories, index, cl) ==
  IF index > Len(rows) THEN cl
  ELSE LET genre == RowGenre(rows[index])
           cl1 == IF KeyIndex(cl, genre) = 0
                  THEN Append(cl, [genre |-> genre, tracks |-> <<>>])
                  ELSE cl
           k == KeyIndex(cl1, genre)
           cl2 == IF IncludeTrack(ldf, categories, index)
                  THEN [cl1 EXCEPT ![k].tracks = Append(@, rows[index].file_path)]
                  ELSE cl1
       IN  ClusterRows(rows, ldf, categories, index + 1, cl2)

(* the mapping returned by create_clusters *)
create_clusters(rows, ldf, categories) == ClusterRows(rows, ldf, categories, 1, <<>>)

(* most rows of the main table *)
MaxRows == 3

(* spawnre_tag and embedded_genre of a row *)
GenreCells ==
  { [spawnre_tag |-> Str("rock"), embedded_genre |-> Str("pop")],
    [spawnre_tag |-> NaN, embedded_genre |-> Str("rock")],
    [spawnre_tag |-> NaN, embedded_genre |-> Str("folk")],
    [spawnre_tag |-> NaN, embedded_genre |-> Str("jazz")],
    [spawnre_tag |-> Str(" Jazz "), embedded_genre |-> NaN],
    [spawnre_tag |-> NaN, embedded_genre |-> NaN] }

LovedRows ==
  { [loved_tracks |-> "no", loved_albums |-> "no", loved_artists |-> "no"],
    [loved_tracks |-> "Yes", loved_albums |-> "no", loved_artists |-> "no"],
    [loved_tracks |-> "no", loved_albums |-> "no", loved_artists |-> "yes"] }

LovedCategoryLists == {<<>>, <<"tracks">>, <<"albums", "artists">>}

(* the file_path of row number i: every row is another file *)
PathOfRow(i) == "Music/t" \o ToString(i) \o ".m4a"

TablesOf(n) ==
  {[i \in 1..n |-> [spawnre_tag |-> c[i].spawnre_tag,
                    embedded_genre |-> c[i].embedded_genre,
                    file_path |-> PathOfRow(i)]] : c \in [1..n -> GenreCells]}

ClustersInit ==
  /\ pc = "table"
  /\ \E n \in 0..MaxRows :
       /\ df \in TablesOf(n)
       /\ loved_df \in {<<>>} \cup [1..n -> LovedRows]
  /\ loved_categories \in LovedCategoryLists
  /\ clusters = <<>>
  /\ NoOrder /\ NoCurate /\ NoMerge /\ NoCopy
  /\ NoNormalize /\ NoCombine /\ NoResolve /\ NoAnalyze

CreateClusters ==
  /\ pc = "table"
  /\ clusters' = create_clusters(df, loved_df, loved_categories)
  /\ pc' = "clustered"
  /\ UNCHANGED <<tableVars, orderVars, curateVars, mergeVars, copyVars, normVars,
                 combineVars, resolveVars, analyzeVars>>

ClustersNext == CreateClusters

SpecClusters == ClustersInit /\ [][ClustersNext]_vars

(* ------------------------------------------------------------------ *)
(* Properties of create_clusters (SpecClusters)                         *)
(* ------------------------------------------------------------------ *)
(* row i passes the loved filter: no filter is in force, or one of the    *)
(* requested categories marks the row as loved                            *)
PassesFilter(i) ==
  \/ loved_df = <<>>
  \/ loved_categories = <<>>
  \/ \E c \in Range(loved_categories) :
       \/ c = "tracks" /\ Lower(loved_df[i].loved_tracks) = "yes"
       \/ c = "albums" /\ Lower(loved_df[i].loved_albums) = "yes"
       \/ c = "artists" /\ Lower(loved_df[i].loved_artists) = "yes"

(* the places (cluster, position) where a path stands in the mapping *)
PlacesOf(path) ==
  {kj \in (1..Len(clusters)) \X (1..Len(df)) :
     /\ kj[2] <= Len(clusters[kj[1]].tracks)
     /\ clusters[kj[1]].tracks[kj[2]] = path}

EmptyCell(cell) == ~cell.isstr \/ cell.s = ""

(* the key the claim gives a row: its tag, else its embedded genre, else  *)
(* unknown, the text trimmed and in lower case as the keys are            *)
ClaimedKey(row) ==
  IF ~EmptyCell(row.spawnre_tag) THEN Lower(Strip(row.spawnre_tag.s))
  ELSE IF ~EmptyCell(row.embedded_genre) THEN Lower(Strip(row.embedded_genre.s))
  ELSE "unknown"

(* C18: every included track stands in the cluster keyed by its           *)
(* spawnre_tag when that is non-empty, else by its embedded genre when    *)
(* that is non-empty, else in the cluster unknown; three tracks without   *)
(* tag and with embedded genres rock, folk, jazz give the clusters rock,  *)
(* folk and jazz with one track each.                                     *)
C18_ClusterKeyFallback ==
  pc = "clustered" =>
    /\ \A i \in 1..Len(df) :
         PassesFilter(i) =>
           \E k \in 1..Len(clusters) :
             /\ clusters[k].genre = ClaimedKey(df[i])
             /\ InSeq(df[i].file_path, clusters[k].tracks)
    /\ (/\ Len(df) = 3 /\ loved_df = <<>>
        /\ \A i \in 1..3 : df[i].spawnre_tag = NaN
        /\ df[1].embedded_genre = Str("rock") /\ df[2].embedded_genre = Str("folk")
        /\ df[3].embedded_genre = Str("jazz"))
         => clusters = << [genre |-> "rock", tracks |-> <<df[1].file_path>>],
                          [genre |-> "folk", tracks |-> <<df[2].file_path>>],
                          [genre |-> "jazz", tracks |-> <<df[3].file_path>>] >>

(* ------------------------------------------------------------------ *)
(* M3U_from_CSV.py: get_related_genres, order_clusters_by_relationships *)
(* ------------------------------------------------------------------ *)
(* genre_mapping.get(related_key, {}).get('Genre', '').lower() *)
GenreOfCode(m, code) ==
  IF \E k \in 1..Len(m) : m[k].Code = code
  THEN Lower(m[CHOOSE k \in 1..Len(m) : m[k].Code = code].Genre)
  ELSE ""

(* the related list of one slot, empty names dropped *)
RelatedOfSlot(m, k) ==
  LET names == [r \in 1..Len(m[k].Related) |-> GenreOfCode(m, m[k].Related[r])]
  IN  SelectSeq(names, LAMBDA g : g # "")

RECURSIVE ConcatFrom(_, _)
ConcatFrom(lists, i) ==
  IF i > Len(lists) THEN <<>> ELSE lists[i] \o ConcatFrom(lists, i + 1)

Concat(lists) == Let(lists, LAMBDA l : ConcatFrom(l, 1))

(* get_related_genres: the related names of the slots named current_genre *)
get_related_genres(current_genre, m) ==
  Let(Lower(current_genre), LAMBDA current_genre_lower :
    Let(SelectSeq([k \in 1..Len(m) |-> k],
                  LAMBDA k : Lower(m[k].Genre) = current_genre_lower),
        LAMBDA current_keys :
          Concat([c \in 1..Len(current_keys) |-> RelatedOfSlot(m, current_keys[c])])))

RECURSIVE InsertBySizeAscending(_, _)
InsertBySizeAscending(q, x) ==
  IF q = <<>> THEN <<x>>
  ELSE IF Len(Head(q).tracks) <= Len(x.tracks)
       THEN <<Head(q)>> \o InsertBySizeAscending(Tail(q), x)
       ELSE <<x>> \o q

RECURSIVE InsertBySize(_, _)
(* x put into the list after every element that is at least as large *)
InsertBySize(q, x) ==
  IF q = <<>> THEN <<x>>
  ELSE IF Len(Head(q).tracks) >= Len(x.tracks)
       THEN <<Head(q)>> \o InsertBySize(Tail(q), x)
       ELSE <<x>> \o q

RECURSIVE SortBySize(_, _)
(* sorted(cluster_counts.items(), key=count, reverse=True): stable *)
SortBySize(cl, acc) ==
  IF cl = <<>> THEN acc ELSE SortBySize(Tail(cl), InsertBySize(acc, Head(cl)))

(* find_next_genre: the first related genre that is a cluster and unused, *)
(* "" for None                                                            *)
find_next_genre(current_genre, cl, used, m) ==
  LET related == get_related_genres(current_genre, m)
      ok == SelectSeq(related, LAMBDA g : KeyIndex(cl, g) # 0 /\ ~InSeq(g, used))
  IN  IF ok = <<>> THEN "" ELSE Head(ok)

(* the first genre of the size order that is unused; <<>> when there is none *)
NextLargest(sorted_genres, used) ==
  SelectSeq(sorted_genres, LAMBDA e : ~InSeq(e.genre, used))

RECURSIVE OrderLoopShort(_, _, _, _, _)
OrderLoopShort(cl, sorted_genres, ordered, current_genre, m) ==
  IF ~(Len(ordered) < Len(cl) - 1) THEN ordered
  ELSE LET next_genre == find_next_genre(current_genre, cl, ordered, m)
       IN  IF next_genre # ""
           THEN OrderLoopShort(cl, sorted_genres, Append(ordered, next_genre), next_genre, m)
           ELSE LET remaining == NextLargest(sorted_genres, ordered)
                IN  IF remaining = <<>> THEN ordered
                    ELSE OrderLoopShort(cl, sorted_genres,
                                        Append(ordered, remaining[1].genre),
                                        remaining[1].genre, m)

RECURSIVE OrderLoop(_, _, _, _, _)
(* the while loop; used_genres is the set of the elements of ordered_genres *)
OrderLoop(cl, sorted_genres, ordered, current_genre, m) ==
  IF ~(Len(ordered) < Len(cl)) THEN ordered
  ELSE LET next_genre == find_next_genre(current_genre, cl, ordered, m)
       IN  IF next_genre # ""
           THEN OrderLoop(cl, sorted_genres, Append(ordered, next_genre), next_genre, m)
           ELSE LET remaining == NextLargest(sorted_genres, ordered)
                IN  IF remaining = <<>> THEN ordered
                    ELSE OrderLoop(cl, sorted_genres,
                                   Append(ordered, remaining[1].genre),
                                   remaining[1].genre, m)

(* the list returned by order_clusters_by_relationships *)
order_clusters_by_relationships(cl, m) ==
  LET sorted_genres == SortBySize(cl, <<>>)
  IN  IF sorted_genres = <<>> THEN <<>>
      ELSE OrderLoop(cl, sorted_genres, <<sorted_genres[1].genre>>,
                     sorted_genres[1].genre, m)

(* most clusters of a mapping given to order_clusters_by_relationships *)
MaxClusters == 3

(* most tracks of one cluster *)
MaxClusterSize == 3

ClusterKeys == {"rock", "blues", "jazz", "blues rock"}

(* a taxonomy in which rock is related to blues, and blues to rock and jazz *)
ScenarioMapping ==
  << [Code |-> "A00", Hex |-> "0x00", Genre |-> "rock", Parent |-> "None",
      Related |-> <<"H00">>],
     [Code |-> "H00", Hex |-> "0xA8", Genre |-> "blues", Parent |-> "None",
      Related |-> <<"A00", "D00">>],
     [Code |-> "D00", Hex |-> "0x48", Genre |-> "jazz", Parent |-> "None",
      Related |-> <<>>] >>

MappingNames == {"genre_mapping", "scenario"}

MappingOf(name) == IF name = "scenario" THEN ScenarioMapping ELSE genre_mapping

TracksNamed(genre, n) == [j \in 1..n |-> genre \o "/" \o ToString(j) \o ".m4a"]

(* the mappings with n distinct keys, every cluster of 0..MaxClusterSize tracks *)
ClusterMappings(n) ==
  {[k \in 1..n |-> [genre |-> ks[k], tracks |-> TracksNamed(ks[k], sz[k])]] :
     ks \in {q \in [1..n -> ClusterKeys] : \A a, b \in 1..n : a # b => q[a] # q[b]},
     sz \in [1..n -> 0..MaxClusterSize]}

(* a mapping of up to MaxClusters clusters and a taxonomy, before the call *)
OrderArguments ==
  /\ \E n \in 0..MaxClusters : clusters \in ClusterMappings(n)
  /\ mapping_used \in MappingNames
  /\ ordered_genres = <<>>
  /\ NoTable /\ NoCurate /\ NoMerge /\ NoCopy
  /\ NoNormalize /\ NoCombine /\ NoResolve /\ NoAnalyze

OrderInit == pc = "clustered" /\ OrderArguments

OrderClusters ==
  /\ pc = "clustered"
  /\ ordered_genres' = order_clusters_by_relationships(clusters, MappingOf(mapping_used))
  /\ pc' = "ordered"
  /\ UNCHANGED <<tableVars, clusters, mapping_used, curateVars, mergeVars, copyVars,
                 normVars, combineVars, resolveVars, analyzeVars>>

OrderNext == OrderClusters

SpecOrder == OrderInit /\ [][OrderNext]_vars

(* ------------------------------------------------------------------ *)
(* Properties of the cluster order (SpecOrder)                          *)
(* ------------------------------------------------------------------ *)
Keys == {clusters[k].genre : k \in 1..Len(clusters)}

SizeOf(g) == Len(clusters[KeyIndex(clusters, g)].tracks)

(* the genres a taxonomy relates to g *)
RelatedSet(m, g) ==
  LET slots == {k \in 1..Len(m) : Lower(m[k].Genre) = g}
      codes == UNION {Range(m[k].Related) : k \in slots}
  IN  {Lower(m[k].Genre) : k \in {k \in 1..Len(m) : m[k].Code \in codes}} \ {""}

(* g is the largest cluster of S, the one inserted first among the largest *)
FirstLargest(g, S) ==
  /\ g \in S
  /\ \A h \in S : SizeOf(h) <= SizeOf(g)
  /\ \A h \in S : SizeOf(h) = SizeOf(g) => KeyIndex(clusters, g) <= KeyIndex(clusters, h)

(* C6: the returned list holds every cluster key exactly once and nothing *)
(* else.                                                                  *)
C6_OrderCoverage ==
  pc = "ordered" =>
    /\ Len(ordered_genres) = Len(clusters)
    /\ \A g \in Keys : Cardinality({i \in 1..Len(ordered_genres) : ordered_genres[i] = g}) = 1
    /\ Range(ordered_genres) \subseteq Keys

(* C6 witness: three clusters, returned in another order than inserted.   *)
C6_Witness ==
  /\ pc = "ordered"
  /\ Len(clusters) = 3
  /\ ordered_genres # [k \in 1..Len(clusters) |-> clusters[k].genre]

(* C7: the first key is the largest cluster (the first inserted of equal  *)
(* ones); every later key is an unused cluster related to the key before  *)
(* it and, only when there is no such cluster, the largest unused one;    *)
(* rock (3), blues (1), jazz (1) with rock related to blues and blues to  *)
(* rock and jazz give rock, blues, jazz.                                  *)
C7_DefaultPolicy ==
  pc = "ordered" =>
    /\ ordered_genres # <<>> => FirstLargest(ordered_genres[1], Keys)
    /\ \A i \in 2..Len(ordered_genres) :
         LET unused == Keys \ {ordered_genres[j] : j \in 1..(i - 1)}
             rel == RelatedSet(MappingOf(mapping_used), ordered_genres[i - 1]) \cap unused
         IN  IF rel # {} THEN ordered_genres[i] \in rel
             ELSE FirstLargest(ordered_genres[i], unused)
    /\ ( /\ mapping_used = "scenario"
         /\ clusters = << [genre |-> "rock", tracks |-> TracksNamed("rock", 3)],
                          [genre |-> "blues", tracks |-> TracksNamed("blues", 1)],
                          [genre |-> "jazz", tracks |-> TracksNamed("jazz", 1)] >> )
       => ordered_genres = <<"rock", "blues", "jazz">>

(* C7 witness: the scenario, with blues before rock in the mapping so     *)
(* that size and relatedness, not insertion, decide.                      *)
C7_Witness ==
  /\ pc = "ordered"
  /\ mapping_used = "scenario"
  /\ clusters = << [genre |-> "jazz", tracks |-> TracksNamed("jazz", 1)],
                   [genre |-> "blues", tracks |-> TracksNamed("blues", 1)],
                   [genre |-> "rock", tracks |-> TracksNamed("rock", 3)] >>
  /\ ordered_genres = <<"rock", "blues", "jazz">>

(* ------------------------------------------------------------------ *)
(* M3U_from_CSV.py: curate_cluster                                      *)
(* ------------------------------------------------------------------ *)
(* feature_columns: danceability, energy, loudness, speechiness,          *)
(* acousticness, instrumentalness, liveness, valence, tempo               *)
FeatureCount == 9

(* Path(p).as_posix().lower(); the paths of the model are in posix form *)
NormalizedPath(path) == Lower(path)

(* main_df[main_df['file_path'].str.lower() == normalized]: the rows found *)
RowsFor(mdf, path) ==
  Let(NormalizedPath(path), LAMBDA normalized :
    SelectSeq(mdf, LAMBDA row : Lower(row.file_path) = normalized))

(* unique_track in features_df.index *)
HasFeatures(fdf, unique_track) == \E f \in fdf : f.unique_track = unique_track

(* features_df.loc[unique_track].to_numpy() *)
FeaturesOf(fdf, unique_track) ==
  (CHOOSE f \in fdf : f.unique_track = unique_track).features

RECURSIVE SumSquares(_, _, _)
SumSquares(a, b, i) ==
  IF i > Len(a) THEN 0
  ELSE (a[i] - b[i]) * (a[i] - b[i]) + SumSquares(a, b, i + 1)

(* np.linalg.norm(a - b) squared: the order of two distances is the order *)
(* of their squares                                                       *)
SquaredDistance(a, b) == SumSquares(a, b, 1)

RECURSIVE NearestLastTie(_, _, _, _, _, _)
NearestLastTie(cands, mdf, fdf, current_features, next_track, min_distance) ==
  IF cands = <<>> THEN next_track
  ELSE LET candidate_path == Head(cands)
       IN  Let(RowsFor(mdf, candidate_path), LAMBDA candidate_row :
             IF candidate_row = <<>>
             THEN NearestLastTie(Tail(cands), mdf, fdf, current_features, next_track, min_distance)
             ELSE IF ~HasFeatures(fdf, candidate_row[1].unique_track)
             THEN NearestLastTie(Tail(cands), mdf, fdf, current_features, next_track, min_distance)
             ELSE Let(SquaredDistance(FeaturesOf(fdf, candidate_row[1].unique_track),
                                      current_features),
                      LAMBDA distance :
                        IF min_distance < 0 \/ distance <= min_distance
                        THEN NearestLastTie(Tail(cands), mdf, fdf, current_features,
                                           candidate_path, distance)
                        ELSE NearestLastTie(Tail(cands), mdf, fdf, current_features,
                                           next_track, min_distance)))

RECURSIVE Nearest(_, _, _, _, _, _)
(* the loop over the candidates; next_track "" is None and a negative     *)
(* min_distance is float('inf')                                           *)
Nearest(cands, mdf, fdf, current_features, next_track, min_distance) ==
  IF cands = <<>> THEN next_track
  ELSE LET candidate_path == Head(cands)
       IN  Let(RowsFor(mdf, candidate_path), LAMBDA candidate_row :
             IF candidate_row = <<>>
             THEN Nearest(Tail(cands), mdf, fdf, current_features, next_track, min_distance)
             ELSE IF ~HasFeatures(fdf, candidate_row[1].unique_track)
             THEN Nearest(Tail(cands), mdf, fdf, current_features, next_track, min_distance)
             ELSE Let(SquaredDistance(FeaturesOf(fdf, candidate_row[1].unique_track),
                                      current_features),
                      LAMBDA distance :
                        IF min_distance < 0 \/ distance < min_distance
                        THEN Nearest(Tail(cands), mdf, fdf, current_features,
                                    candidate_path, distance)
                        ELSE Nearest(Tail(cands), mdf, fdf, current_features,
                                    next_track, min_distance)))

(* list.remove(x): the list without the first x *)
RemoveFirst(q, x) ==
  LET i == CHOOSE i \in 1..Len(q) : q[i] = x /\ \A j \in 1..(i - 1) : q[j] # x
  IN  SubSeq(q, 1, i - 1) \o SubSeq(q, i + 1, Len(q))

RECURSIVE CurateLoop(_, _, _, _)
(* the while loop: rest is what is left of the list, curated_order grows *)
CurateLoop(rest, order, mdf, fdf) ==
  IF rest = <<>> THEN order
  ELSE LET current_row == RowsFor(mdf, order[Len(order)])
       IN  IF current_row = <<>> THEN order
           ELSE IF ~HasFeatures(fdf, current_row[1].unique_track)
           THEN CurateLoop(Tail(rest), Append(order, Head(rest)), mdf, fdf)
           ELSE LET next_track ==
                      Nearest(rest, mdf, fdf,
                              FeaturesOf(fdf, current_row[1].unique_track), "", -1)
                IN  IF next_track # ""
                    THEN CurateLoop(RemoveFirst(rest, next_track),
                                    Append(order, next_track), mdf, fdf)
                    ELSE CurateLoop(Tail(rest), Append(order, Head(rest)), mdf, fdf)

(* the list returned by curate_cluster *)
curate_cluster(cl, mdf, fdf) ==
  IF Len(cl) <= 1 THEN cl
  ELSE CurateLoop(Tail(cl), <<Head(cl)>>, mdf, fdf)

(* most tracks of the cluster given to curate_cluster *)
MaxCurated == 4

(* tempo-only feature vectors *)
Tempo(t) == [i \in 1..FeatureCount |-> IF i = FeatureCount THEN t ELSE 0]

(* what is known of a track: no row in the main table, a row but no       *)
(* features, or a row and features                                        *)
TrackKinds == {"norow", "nofeatures", "t99", "t100", "t101", "t150"}

KindFeatures(kind) ==
  CASE kind = "t99" -> Tempo(99)
    [] kind = "t100" -> Tempo(100)
    [] kind = "t101" -> Tempo(101)
    [] kind = "t150" -> Tempo(150)

CuratedPath(i) == "Music/T" \o ToString(i) \o ".m4a"

UniqueTrack(i) == "song-" \o ToString(i) \o "_artist"

(* a cluster of n tracks *)
ClusterOf(n) == [i \in 1..n |-> CuratedPath(i)]

(* the rows of the main table for tracks of the given kinds *)
MainTable(n, kinds) ==
  SelectSeq([i \in 1..n |-> [file_path |-> CuratedPath(i),
                             unique_track |-> UniqueTrack(i),
                             row |-> i]],
            LAMBDA r : kinds[r.row] # "norow")

(* the feature rows for tracks of the given kinds *)
FeatureTable(n, kinds) ==
  {[unique_track |-> UniqueTrack(i), features |-> KindFeatures(kinds[i])] :
     i \in {i \in 1..n : kinds[i] \notin {"norow", "nofeatures"}}}

(* a cluster of up to MaxCurated tracks and the two tables, before the call *)
CurateArguments ==
  /\ \E n \in 0..MaxCurated :
       \E kinds \in [1..n -> TrackKinds] :
         /\ cluster = ClusterOf(n)
         /\ main_df = MainTable(n, kinds)
         /\ features_df = FeatureTable(n, kinds)
  /\ cluster_copy = <<>> /\ curated_order = <<>>
  /\ NoTable /\ clusters = <<>> /\ NoOrder /\ NoMerge /\ NoCopy
  /\ NoNormalize /\ NoCombine /\ NoResolve /\ NoAnalyze

CurateInit == pc = "cluster" /\ CurateArguments

CurateCluster ==
  /\ pc = "cluster"
  /\ curated_order' = curate_cluster(cluster, main_df, features_df)
  /\ pc' = "curated"
  /\ UNCHANGED <<tableVars, clusters, orderVars, cluster, main_df, features_df,
                 cluster_copy, mergeVars, copyVars, normVars, combineVars, resolveVars,
                 analyzeVars>>

CurateNext == CurateCluster

SpecCurate == CurateInit /\ [][CurateNext]_vars

(* ------------------------------------------------------------------ *)
(* Properties of the track order (SpecCurate)                           *)
(* ------------------------------------------------------------------ *)
(* the feature vector of a path, <<>> when the path has no row or the row *)
(* no features                                                            *)
VectorOf(path) ==
  LET rows == {i \in 1..Len(main_df) : Lower(main_df[i].file_path) = Lower(path)}
      feats == {f \in features_df :
                  \E i \in rows : main_df[i].unique_track = f.unique_track}
  IN  IF feats = {} THEN <<>> ELSE (CHOOSE f \in feats : TRUE).features

AllHaveFeatures == \A i \in 1..Len(cluster) : VectorOf(cluster[i]) # <<>>

Distance2(p, q) ==
  LET a == VectorOf(p)
      b == VectorOf(q)
      d == [i \in 1..Len(a) |-> (a[i] - b[i]) * (a[i] - b[i])]
      S[i \in 0..Len(a)] == IF i = 0 THEN 0 ELSE S[i - 1] + d[i]
  IN  S[Len(a)]

(* C8: when every track of the cluster has features, the result starts    *)
(* with the first input track and every later element is, among the       *)
(* tracks not yet placed, the one nearest to the element before it, the   *)
(* earliest in input order among equally near ones; tempos 100, 101, 150  *)
(* in this order stay in this order.                                      *)
C8_NearestNeighbour ==
  (pc = "curated" /\ AllHaveFeatures) =>
    /\ Len(curated_order) = Len(cluster)
    /\ cluster # <<>> => curated_order[1] = cluster[1]
    /\ \A i \in 2..Len(curated_order) :
         LET placed == {curated_order[j] : j \in 1..(i - 1)}
             remaining == {c \in 1..Len(cluster) : cluster[c] \notin placed}
             prev == curated_order[i - 1]
         IN  \E c \in remaining :
               /\ cluster[c] = curated_order[i]
               /\ \A o \in remaining :
                    /\ Distance2(cluster[c], prev) <= Distance2(cluster[o], prev)
                    /\ Distance2(cluster[c], prev) = Distance2(cluster[o], prev) => c <= o
    /\ ( /\ Len(cluster) = 3
         /\ VectorOf(cluster[1]) = Tempo(100)
         /\ VectorOf(cluster[2]) = Tempo(101)
         /\ VectorOf(cluster[3]) = Tempo(150) )
       => curated_order = cluster

(* C8 witness: tempos 100, 150, 101, 99: the nearest track is not the     *)
(* next one of the input.                                                 *)
C8_Witness ==
  /\ pc = "curated"
  /\ AllHaveFeatures
  /\ Len(cluster) = 4
  /\ VectorOf(cluster[1]) = Tempo(100)
  /\ VectorOf(cluster[2]) = Tempo(150)
  /\ VectorOf(cluster[3]) = Tempo(101)
  /\ VectorOf(cluster[4]) = Tempo(99)
  /\ curated_order = <<cluster[1], cluster[3], cluster[4], cluster[2]>>

(* ------------------------------------------------------------------ *)
(* M3U_from_CSV.py: generate_curated_m3u from the ordered clusters on:  *)
(* the summary, the prompt, the preferred genre order and the playlist  *)
(* ------------------------------------------------------------------ *)
IsLetter(c) ==
  \E i \in 1..Len(LowerChars) : SubSeq(LowerChars, i, i) = c \/ SubSeq(UpperChars, i, i) = c

RECURSIVE TitleFrom(_, _)
(* str.title() from a place on: a letter after a non-letter in upper case, *)
(* every other letter in lower case                                       *)
TitleFrom(s, afterLetter) ==
  IF Len(s) = 0 THEN ""
  ELSE LET c == SubSeq(s, 1, 1)
       IN  (IF afterLetter THEN LowerChar(c) ELSE UpperChar(c))
             \o TitleFrom(SubSeq(s, 2, Len(s)), IsLetter(c))

Title(s) == TitleFrom(s, FALSE)

RECURSIVE ReplaceHyphen(_)
(* genre.replace('-', ' ') *)
ReplaceHyphen(s) ==
  IF Len(s) = 0 THEN ""
  ELSE (IF SubSeq(s, 1, 1) = "-" THEN " " ELSE SubSeq(s, 1, 1))
         \o ReplaceHyphen(SubSeq(s, 2, Len(s)))

(* the file written by save_genre_order; nothing is written for an empty list *)
save_genre_order(file, preferred_genre_order) ==
  IF preferred_genre_order = <<>> THEN file
  ELSE [exists |-> TRUE,
        order |-> [i \in 1..Len(preferred_genre_order) |->
                     Title(ReplaceHyphen(preferred_genre_order[i]))]]

(* [genre.lower().strip() for genre in preferred_order] *)
Standardize(order) == [i \in 1..Len(order) |-> Strip(Lower(order[i]))]

(* load_saved_genre_order: <<>> stands for None *)
load_saved_genre_order(file) ==
  IF file.exists /\ file.order # <<>> THEN Standardize(file.order) ELSE <<>>

(* the list made of the entered line, given piece by piece between commas: *)
(* [genre.strip().lower() for genre in new_order_input.split(",") if genre.strip()] *)
ManualOrder(pieces) ==
  LET lowered == [i \in 1..Len(pieces) |-> Lower(pieces[i])]
      kept == SelectSeq(lowered, LAMBDA g : Strip(g) # "")
  IN  [i \in 1..Len(kept) |-> Lower(Strip(kept[i]))]

(* [genre for genre in order if genre in clusters] *)
ValidGenres(order, cl) == SelectSeq(order, LAMBDA g : KeyIndex(cl, g) # 0)


(* ordered_genres_user: the valid entries, then the genres of the default *)
(* order that are not among them                                          *)
MergedOrder(valid_genres, og) ==
  valid_genres \o SelectSeq(og, LAMBDA g : ~InSeq(g, valid_genres))

(* the genres of the pairs appended to ordered_clusters: a genre without  *)
(* tracks is skipped                                                      *)
OrderedClusters(order, cl) ==
  SelectSeq(order, LAMBDA g : KeyIndex(cl, g) # 0 /\ cl[KeyIndex(cl, g)].tracks # <<>>)

(* write_m3u: one "# Genre:" line for every pair that has tracks *)
write_m3u(oc) == [written |-> TRUE, genres |-> oc]

(* what the prompt leaves behind: the merged order, the rebuilt pairs,    *)
(* genre_order.json and the playlist file                                 *)
Unmodified(oc, file) ==
  [ordered_genres_user |-> <<>>, ordered_clusters |-> oc, genre_order_file |-> file,
   m3u |-> NotWritten]

(* the branch that recalls the saved order *)
UseSavedOrder(cl, og, oc, file) ==
  LET saved_order == load_saved_genre_order(file)
      valid_saved_order == ValidGenres(saved_order, cl)
      ogu == MergedOrder(valid_saved_order, og)
  IN  IF saved_order = <<>> \/ valid_saved_order = <<>> THEN Unmodified(oc, file)
      ELSE [ordered_genres_user |-> ogu, ordered_clusters |-> OrderedClusters(ogu, cl),
            genre_order_file |-> file, m3u |-> write_m3u(OrderedClusters(ogu, cl))]

(* the branch that reads a JSON file holding the list entries *)
UseJsonOrder(entries, save_choice, cl, og, oc, file) ==
  LET new_preferred_order == Standardize(entries)
      valid_genres == ValidGenres(new_preferred_order, cl)
      ogu == MergedOrder(valid_genres, og)
  IN  IF new_preferred_order = <<>> \/ valid_genres = <<>> THEN Unmodified(oc, file)
      ELSE [ordered_genres_user |-> ogu, ordered_clusters |-> OrderedClusters(ogu, cl),
            genre_order_file |-> IF save_choice = "y"
                                 THEN save_genre_order(file, new_preferred_order)
                                 ELSE file,
            m3u |-> write_m3u(OrderedClusters(ogu, cl))]

(* the branch of an order entered by hand *)
UseManualOrder(entries, save_choice, cl, og, oc, file) ==
  LET new_preferred_order == ManualOrder(entries)
      valid_genres == ValidGenres(new_preferred_order, cl)
      ogu == MergedOrder(valid_genres, og)
  IN  IF new_preferred_order = <<>> \/ valid_genres = <<>> THEN Unmodified(oc, file)
      ELSE [ordered_genres_user |-> ogu, ordered_clusters |-> OrderedClusters(ogu, cl),
            genre_order_file |-> IF save_choice = "y"
                                 THEN save_genre_order(file, new_preferred_order)
                                 ELSE file,
            m3u |-> NotWritten]

(* longest preferred genre order supplied *)
MaxSupplied == 2

(* most clusters of a playlist whose order is modified *)
MaxMergeClusters == 2

MergeKeys == {"rock", "jazz", "blues"}

SuppliedNames == {"Jazz", " rock", "polka"}

SavedFiles == {NoFile, [exists |-> TRUE, order |-> <<"Polka", "Jazz", "Rock">>]}

(* the mappings of n clusters, each empty, of one track or of the most tracks *)
MergeMappings(n) ==
  {[k \in 1..n |-> [genre |-> ks[k], tracks |-> TracksNamed(ks[k], sz[k])]] :
     ks \in {q \in [1..n -> MergeKeys] : \A a, b \in 1..n : a # b => q[a] # q[b]},
     sz \in [1..n -> {0, 1, MaxClusterSize}]}

OrderInputs ==
  {[kind |-> "blank", entries |-> <<>>]}
    \cup {[kind |-> k, entries |-> e] :
            k \in {"json", "list"}, e \in SeqsUpTo(SuppliedNames, MaxSupplied)}

MergeInit ==
  /\ pc = "clustered"
  /\ \E n \in 0..MaxMergeClusters : clusters \in MergeMappings(n)
  /\ mapping_used = "genre_mapping"
  /\ ordered_genres = <<>>
  /\ genre_order_file \in SavedFiles
  /\ user_choice = "" /\ new_order_input = NoInput /\ ordered_genres_user = <<>>
  /\ ordered_clusters = <<>> /\ m3u = NotWritten
  /\ NoTable /\ NoCurate /\ NoCopy
  /\ NoNormalize /\ NoCombine /\ NoResolve /\ NoAnalyze

(* the pairs built in the default order and shown as the summary; the run *)
(* ends here when nothing was ordered                                     *)
Summarize ==
  /\ pc = "ordered"
  /\ IF ordered_genres = <<>>
     THEN pc' = "exit" /\ UNCHANGED ordered_clusters
     ELSE pc' = "summary" /\ ordered_clusters' = OrderedClusters(ordered_genres, clusters)
  /\ UNCHANGED <<user_choice, new_order_input, ordered_genres_user, genre_order_file, m3u,
                 tableVars, clusters, orderVars, curateVars, copyVars, normVars,
                 combineVars, resolveVars, analyzeVars>>

(* the prompt and everything after it *)
ModifyOrder ==
  /\ pc = "summary"
  /\ \E choice \in {"y", "n"}, input \in OrderInputs, save_choice \in {"y", "n"} :
       LET r == IF choice # "y"
                THEN Unmodified(ordered_clusters, genre_order_file)
                ELSE CASE input.kind = "blank" ->
                            UseSavedOrder(clusters, ordered_genres, ordered_clusters,
                                          genre_order_file)
                       [] input.kind = "json" ->
                            UseJsonOrder(input.entries, save_choice, clusters,
                                         ordered_genres, ordered_clusters, genre_order_file)
                       [] OTHER ->
                            UseManualOrder(input.entries, save_choice, clusters,
                                           ordered_genres, ordered_clusters,
                                           genre_order_file)
       IN  /\ user_choice' = choice
           /\ new_order_input' = IF choice = "y" THEN input ELSE NoInput
           /\ ordered_genres_user' = r.ordered_genres_user
           /\ ordered_clusters' = r.ordered_clusters
           /\ genre_order_file' = r.genre_order_file
           /\ m3u' = r.m3u
  /\ pc' = "done"
  /\ UNCHANGED <<tableVars, clusters, orderVars, curateVars, copyVars, normVars,
                 combineVars, resolveVars, analyzeVars>>

MergeNext == OrderClusters \/ Summarize \/ ModifyOrder

SpecMerge == MergeInit /\ [][MergeNext]_vars


(* ------------------------------------------------------------------ *)
(* Properties of the preferred genre order (SpecMerge)                  *)
(* ------------------------------------------------------------------ *)
(* the order the run ends with: the merged one when one was built, the    *)
(* default one otherwise                                                  *)
FinalOrder == IF ordered_genres_user # <<>> THEN ordered_genres_user ELSE ordered_genres

(* the names the user supplied, trimmed and in lower case, blanks left out *)
SuppliedOrder ==
  LET given == IF new_order_input.kind = "blank"
               THEN (IF genre_order_file.exists THEN genre_order_file.order ELSE <<>>)
               ELSE new_order_input.entries
      names == [i \in 1..Len(given) |-> Lower(Strip(given[i]))]
  IN  SelectSeq(names, LAMBDA g : g # "")

(* C19: after a supplied genre order the final cluster order is the       *)
(* supplied entries that are cluster keys, in the supplied order, then    *)
(* the clusters not mentioned, in the default order; every cluster is in  *)
(* it exactly once.                                                       *)
C19_MergedOrder ==
  (pc = "done" /\ user_choice = "y") =>
    /\ FinalOrder
         = SelectSeq(SuppliedOrder, LAMBDA g : KeyIndex(clusters, g) # 0)
             \o SelectSeq(ordered_genres, LAMBDA g : ~InSeq(g, SuppliedOrder))
    /\ \A k \in 1..Len(clusters) : Occurrences(FinalOrder, clusters[k].genre) = 1


(* ------------------------------------------------------------------ *)
(* anal_M3U.py: fetch_genre_lastfm, get_spotify_genres,                 *)
(* get_musicbrainz_genres, one attempt at a time                        *)
(* ------------------------------------------------------------------ *)
(* retries: int = 3 of fetch_genre_lastfm *)
LastfmRetries == 3

(* retries: int = 3 of get_spotify_genres *)
SpotifyRetries == 3

(* the 5 of artist['genres'][:5] and genre_names[:5] *)
LookupLimit == 5

(* the tag names a service can answer with *)
ResponseTags == {<<>>, <<"Rock">>, <<"Jazz", "Blues">>}

(* what one call of the Last.fm service can give *)
LastfmResponses ==
  {[kind |-> k, tags |-> <<>>] :
     k \in {"http_error", "timeout", "connection_error", "no_toptags", "single_tag_object",
            "tag_without_name"}}
    \cup {[kind |-> "tags", tags |-> t] : t \in ResponseTags}

(* what one call of sp.search can give *)
SpotifyResponses ==
  {[kind |-> k, tags |-> <<>>] :
     k \in {"api_error", "rate_limit", "request_exception", "no_artist", "no_artists_key"}}
    \cup {[kind |-> "artist", tags |-> t] : t \in ResponseTags}

(* what one call of musicbrainzngs.search_artists can give *)
MusicbrainzResponses ==
  {[kind |-> k, tags |-> <<>>] : k \in {"web_service_error", "no_artist", "tag_without_name"}}
    \cup {[kind |-> "artist", tags |-> t] : t \in ResponseTags}

LookupArtists == {"X", "Y"}

(* the caches as earlier tracks of the run can have left them *)
LookupCaches == {<<>>, <<[artist |-> "X", genres |-> <<"rock">>]>>}

(* [tag['name'].lower() for tag in tags] *)
LowerAll(tags) == [i \in 1..Len(tags) |-> Lower(tags[i])]

(* cache[artist] = genres *)
CachePut(cache, artist, genre_list) ==
  IF \E i \in 1..Len(cache) : cache[i].artist = artist
  THEN [i \in 1..Len(cache) |->
          IF cache[i].artist = artist THEN [artist |-> artist, genres |-> genre_list]
          ELSE cache[i]]
  ELSE Append(cache, [artist |-> artist, genres |-> genre_list])

(* artist in cache *)
InCache(cache, artist) == \E i \in 1..Len(cache) : cache[i].artist = artist

(* cache[artist] *)
CacheGet(cache, artist) ==
  cache[CHOOSE i \in 1..Len(cache) : cache[i].artist = artist].genres

LookupInit ==
  /\ pc = "lookup"
  /\ lookup \in {"lastfm", "spotify", "musicbrainz"}
  /\ lookup_artist \in LookupArtists
  /\ credentials \in BOOLEAN
  /\ attempt = 0 /\ responses = <<>> /\ lookup_result = <<>> /\ exception = ""
  /\ spotify_genre_cache \in LookupCaches
  /\ musicbrainz_genre_cache \in LookupCaches
  /\ data = <<>> /\ resolved = <<>> /\ artist_spawnre_tags = <<>>
  /\ NoNormalize /\ NoCombine /\ NoResolve /\ NoPlaylist

(* the lookup ends with a list *)
Return(genre_list) ==
  pc' = "returned" /\ lookup_result' = genre_list /\ exception' = ""

(* an exception that no except clause of the lookup names leaves it *)
Raise(name) ==
  pc' = "raised" /\ lookup_result' = <<>> /\ exception' = name

(* the loop goes on to its next attempt, or ends after the last one *)
NextAttempt(retries) ==
  IF attempt + 1 >= retries THEN Return(<<>>)
  ELSE pc' = "lookup" /\ UNCHANGED <<lookup_result, exception>>


(* fetch_genre_lastfm: the return without API key, or one pass of its loop *)
LastfmAttempt ==
  /\ pc = "lookup" /\ lookup = "lastfm"
  /\ IF ~credentials
     THEN Return(<<>>) /\ UNCHANGED <<attempt, responses>>
     ELSE \E r \in LastfmResponses :
            /\ attempt' = attempt + 1
            /\ responses' = Append(responses, r)
            /\ CASE r.kind \in {"http_error", "timeout"} -> NextAttempt(LastfmRetries)
                 [] r.kind \in {"connection_error", "no_toptags"} -> Return(<<>>)
                 [] r.kind = "tags" -> Return(LowerAll(r.tags))
                 [] r.kind = "single_tag_object" -> Raise("TypeError")
                 [] OTHER -> Raise("KeyError")
  /\ UNCHANGED <<lookup, lookup_artist, credentials, spotify_genre_cache,
                 musicbrainz_genre_cache, data, resolved, artist_spawnre_tags, normVars,
                 combineVars, resolveVars, playlistVars>>

(* get_spotify_genres: the return without client, or one pass of its loop *)
SpotifyAttempt ==
  /\ pc = "lookup" /\ lookup = "spotify"
  /\ IF ~credentials
     THEN Return(<<>>) /\ UNCHANGED <<attempt, responses, spotify_genre_cache>>
     ELSE \E r \in SpotifyResponses :
            /\ attempt' = attempt + 1
            /\ responses' = Append(responses, r)
            /\ CASE r.kind \in {"api_error", "rate_limit", "request_exception"} ->
                      NextAttempt(SpotifyRetries) /\ UNCHANGED spotify_genre_cache
                 [] r.kind = "no_artist" -> Return(<<>>) /\ UNCHANGED spotify_genre_cache
                 [] r.kind = "artist" ->
                      /\ Return(SliceTo(r.tags, LookupLimit))
                      /\ spotify_genre_cache' =
                           CachePut(spotify_genre_cache, lookup_artist,
                                    SliceTo(r.tags, LookupLimit))
                 [] OTHER -> Raise("KeyError") /\ UNCHANGED spotify_genre_cache
  /\ UNCHANGED <<lookup, lookup_artist, credentials, musicbrainz_genre_cache, data,
                 resolved, artist_spawnre_tags, normVars, combineVars, resolveVars,
                 playlistVars>>

(* get_musicbrainz_genres: the answer from the cache, or its one call *)
MusicbrainzLookup ==
  /\ pc = "lookup" /\ lookup = "musicbrainz"
  /\ IF InCache(musicbrainz_genre_cache, lookup_artist)
     THEN /\ Return(CacheGet(musicbrainz_genre_cache, lookup_artist))
          /\ UNCHANGED <<attempt, responses, musicbrainz_genre_cache>>
     ELSE \E r \in MusicbrainzResponses :
            /\ attempt' = attempt + 1
            /\ responses' = Append(responses, r)
            /\ CASE r.kind \in {"web_service_error", "no_artist"} ->
                      Return(<<>>) /\ UNCHANGED musicbrainz_genre_cache
                 [] r.kind = "artist" ->
                      /\ Return(SliceTo(LowerAll(r.tags), LookupLimit))
                      /\ musicbrainz_genre_cache' =
                           CachePut(musicbrainz_genre_cache, lookup_artist,
                                    SliceTo(LowerAll(r.tags), LookupLimit))
                 [] OTHER -> Raise("KeyError") /\ UNCHANGED musicbrainz_genre_cache
  /\ UNCHANGED <<lookup, lookup_artist, credentials, spotify_genre_cache, data, resolved,
                 artist_spawnre_tags, normVars, combineVars, resolveVars, playlistVars>>

LookupNext == LastfmAttempt \/ SpotifyAttempt \/ MusicbrainzLookup

SpecLookup == LookupInit /\ [][LookupNext]_vars

(* ------------------------------------------------------------------ *)
(* Properties of the lookups (SpecLookup)                               *)
(* ------------------------------------------------------------------ *)
(* the answers that are a failure of the external call *)
FailureKinds ==
  {"http_error", "timeout", "connection_error", "api_error", "rate_limit",
   "request_exception", "web_service_error", "no_artist", "no_toptags",
   "single_tag_object", "tag_without_name", "no_artists_key"}

(* the attempts the lookup running is configured for *)
ConfiguredAttempts ==
  CASE lookup = "lastfm" -> LastfmRetries
    [] lookup = "spotify" -> SpotifyRetries
    [] OTHER -> 1

(* C20: a lookup whose external call fails (HTTP error, timeout, rate     *)
(* limit, not found, malformed answer) returns the empty list; it makes   *)
(* at most its configured number of attempts and no exception leaves it.  *)
C20_LookupFailsSafe ==
  /\ exception = "" /\ pc # "raised"
  /\ attempt <= ConfiguredAttempts
  /\ (pc = "returned" /\ responses # <<>>
        /\ responses[Len(responses)].kind \in FailureKinds) => lookup_result = <<>>

(* ------------------------------------------------------------------ *)
(* copy_tracks_with_sequence: the copy loop over the playlist's tracks  *)
(* ------------------------------------------------------------------ *)
(* most track lines of a playlist given to the copy *)
MaxPlaylistTracks == 3

(* the bytes of one gigabyte *)
Gigabyte == 1024 * 1024 * 1024

(* a max_size_gb of g gigabytes *)
Size(g) == [given |-> TRUE, gb |-> g]

(* what a track line can stand for: whether it is a file, its size in   *)
(* bytes, whether the numbered destination exists already, and how      *)
(* shutil.copy2 and the size check end                                  *)
TrackFiles ==
  { [is_file |-> FALSE, st_size |-> 0, exists |-> FALSE, copy2 |-> "ok"],
    [is_file |-> TRUE, st_size |-> 0, exists |-> FALSE, copy2 |-> "ok"],
    [is_file |-> TRUE, st_size |-> 268435456, exists |-> FALSE, copy2 |-> "ok"],
    [is_file |-> TRUE, st_size |-> 402653184, exists |-> FALSE, copy2 |-> "ok"],
    [is_file |-> TRUE, st_size |-> 402653184, exists |-> TRUE, copy2 |-> "ok"],
    [is_file |-> TRUE, st_size |-> 268435456, exists |-> FALSE, copy2 |-> "error"] }

MaxSizes == {NoSize, Size(0), Size(1)}

(* max_size_bytes = max_size_gb * (1024 ** 3) if max_size_gb else None *)
max_size_bytes ==
  IF max_size_gb.given /\ max_size_gb.gb # 0
  THEN [given |-> TRUE, bytes |-> max_size_gb.gb * Gigabyte]
  ELSE [given |-> FALSE, bytes |-> 0]

(* if max_size_bytes and (total_copied_size + original_size) > max_size_bytes *)
ExceedsLimit(original_size) ==
  /\ max_size_bytes.given /\ max_size_bytes.bytes # 0
  /\ total_copied_size + original_size > max_size_bytes.bytes

CopyInit ==
  /\ pc = "copy"
  /\ tracks \in SeqsUpTo(TrackFiles, MaxPlaylistTracks)
  /\ max_size_gb \in MaxSizes
  /\ dry_run \in BOOLEAN
  /\ idx = 0 /\ total_copied_size = 0 /\ success_count = 0 /\ failure_count = 0
  /\ NoNormalize /\ NoCombine /\ NoResolve /\ NoAnalyze
  /\ NoTable /\ clusters = <<>> /\ NoOrder /\ NoCurate /\ NoMerge

(* one pass of the loop body *)
CopyTrack ==
  /\ pc = "copy" /\ idx < Len(tracks)
  /\ LET track == tracks[idx + 1]
     IN  IF ~track.is_file
         THEN /\ failure_count' = failure_count + 1
              /\ idx' = idx + 1
              /\ UNCHANGED <<pc, total_copied_size, success_count>>
         ELSE IF ExceedsLimit(track.st_size)
         THEN /\ pc' = "copied"
              /\ UNCHANGED <<idx, total_copied_size, success_count, failure_count>>
         ELSE IF track.exists
         THEN /\ failure_count' = failure_count + 1
              /\ idx' = idx + 1
              /\ UNCHANGED <<pc, total_copied_size, success_count>>
         ELSE IF dry_run \/ track.copy2 = "ok"
         THEN /\ success_count' = success_count + 1
              /\ total_copied_size' = total_copied_size + track.st_size
              /\ idx' = idx + 1
              /\ UNCHANGED <<pc, failure_count>>
         ELSE /\ failure_count' = failure_count + 1
              /\ idx' = idx + 1
              /\ UNCHANGED <<pc, total_copied_size, success_count>>
  /\ UNCHANGED <<tracks, max_size_gb, dry_run, tableVars, clusters, orderVars, curateVars,
                 mergeVars, normVars, combineVars, resolveVars, analyzeVars>>

(* the loop has taken every track: return (success_count, failure_count) *)
CopyReturn ==
  /\ pc = "copy" /\ idx = Len(tracks)
  /\ pc' = "copied"
  /\ UNCHANGED <<copyVars, tableVars, clusters, orderVars, curateVars, mergeVars, normVars,
                 combineVars, resolveVars, analyzeVars>>

CopyNext == CopyTrack \/ CopyReturn

SpecCopy == CopyInit /\ [][CopyNext]_vars

(* ------------------------------------------------------------------ *)
(* Properties of the copy loop (SpecCopy)                               *)
(* ------------------------------------------------------------------ *)
(* the loop left by break: a track is still to be taken *)
StoppedEarly == pc = "copied" /\ idx < Len(tracks)

(* C21: whenever a maximum size is given, the cumulative size of the    *)
(* tracks copied so far is at most that maximum at every step of the    *)
(* loop, and the loop stops at the first track whose copy would exceed  *)
(* it.                                                                  *)
C21_SizeLimitKept ==
  (pc \in {"copy", "copied"} /\ max_size_gb.given) =>
    /\ total_copied_size <= max_size_gb.gb * Gigabyte
    /\ StoppedEarly =>
         /\ tracks[idx + 1].is_file
         /\ total_copied_size + tracks[idx + 1].st_size > max_size_gb.gb * Gigabyte

(* ------------------------------------------------------------------ *)
(* Further properties of the reconciler (SpecCombine)                   *)
(* ------------------------------------------------------------------ *)
(* the names of the named taxonomy entries, as dic_spawnre.py spells them *)
EntryNames == {genre_mapping[i].Genre : i \in 1..Len(genre_mapping)} \ {""}

(* the normalised forms of the source strings that no entry is named by *)
Discarded ==
  {normalize_genre(AllGenres[p]) : p \in 1..Len(AllGenres)} \ EntryNames

(* C22: every string of the returned list is the name of a named        *)
(* taxonomy entry and occurs in it once; a raw genre whose normalised   *)
(* form is no taxonomy name is not returned and is in no tally; with    *)
(* embedded genre "rock" and no external data the list is <<"rock">>    *)
(* and the encoder gives "x00".                                         *)
C22_OnlyTaxonomyNames ==
  Combined =>
    /\ \A p \in 1..Len(combined_genres) :
         /\ combined_genres[p] \in EntryNames
         /\ \A q \in 1..Len(combined_genres) :
              combined_genres[q] = combined_genres[p] => q = p
    /\ \A g \in Discarded :
         /\ PositionIn(combined_genres, g) = 0
         /\ \A a \in TallyArtists(artist_genre_count) : TallyOf(artist_genre_count, a, g) = 0
    /\ (/\ embedded_genre = "rock" /\ last_fm_genres = <<>> /\ spotify_genres = <<>>
        /\ musicbrainz_genres = <<>>)
         => /\ combined_genres = <<"rock">>
            /\ pc = "resolved" => (matched_genres = <<"rock">> /\ spawnre_hex = "x00")

(* C22 witness: a call whose embedded genre is no taxonomy name and     *)
(* whose other sources name rock twice and hip-hop once.                *)
C22_Witness ==
  /\ pc = "resolved"
  /\ embedded_genre = "polka"
  /\ last_fm_genres = <<"rap">> /\ spotify_genres = <<"Rock", "Rock">>
  /\ "polka" \in Discarded
  /\ Len(combined_genres) = 2

(* ------------------------------------------------------------------ *)
(* analyze_m3u: related_genre_map, built from genre_mapping             *)
(* ------------------------------------------------------------------ *)
(* the slots whose Code is rel_code: genre_mapping.get(rel_code) *)
SlotsOfCode(rel_code) == {k \in 1..Len(genre_mapping) : genre_mapping[k].Code = rel_code}

(* for every slot, [genre_mapping[rel_code]['Genre'].lower() for rel_code *)
(* in related_codes if genre_mapping.get(rel_code)]                       *)
related_genres ==
  [i \in 1..Len(genre_mapping) |->
     LET related_codes == genre_mapping[i].Related
         known == SelectSeq(related_codes, LAMBDA rel_code : SlotsOfCode(rel_code) # {})
     IN  [p \in 1..Len(known) |-> GenreLower[CHOOSE k \in SlotsOfCode(known[p]) : TRUE]]]

(* the keys of related_genre_map: the slots with a non-empty list *)
related_genre_map == {i \in 1..Len(genre_mapping) : related_genres[i] # <<>>}

(* ------------------------------------------------------------------ *)
(* Further properties of the normaliser (SpecNormalize)                 *)
(* ------------------------------------------------------------------ *)
(* the families whose related-genre list holds s *)
FamiliesOf(s) ==
  {i \in related_genre_map : \E p \in 1..Len(related_genres[i]) : related_genres[i][p] = s}

(* C23: normalize_genre lowercases and trims the raw text, substitutes   *)
(* synonyms, and then, if the synonym-resolved string is in a family's   *)
(* related-genre list, replaces it with that family's canonical name.    *)
C23_NormalizeSteps ==
  pc \in {"once", "twice"} =>
    LET resolved_text == normalize_genre(Strip(raw))
    IN  IF FamiliesOf(resolved_text) # {}
        THEN \E i \in FamiliesOf(resolved_text) : once = GenreLower[i]
        ELSE once = resolved_text

(* ------------------------------------------------------------------ *)
(* order_clusters_by_relationships and curate_cluster, one pass of      *)
(* their while loops at a time                                          *)
(* ------------------------------------------------------------------ *)
(* the lines before the loop of order_clusters_by_relationships *)
OrderEnter ==
  /\ pc = "order_call"
  /\ LET sorted_genres == SortBySize(clusters, <<>>)
     IN  IF sorted_genres = <<>>
         THEN ordered_genres' = <<>> /\ pc' = "ordered"
         ELSE ordered_genres' = <<sorted_genres[1].genre>> /\ pc' = "order_while"
  /\ UNCHANGED <<tableVars, clusters, mapping_used, curateVars, mergeVars, copyVars,
                 normVars, combineVars, resolveVars, analyzeVars>>

(* what one pass of while len(used_genres) < len(clusters) appends:     *)
(* current_genre is the genre appended last; <<>> when the pass breaks  *)
OrderPassAppends ==
  LET current_genre == ordered_genres[Len(ordered_genres)]
      remaining == NextLargest(SortBySize(clusters, <<>>), ordered_genres)
  IN  Let(find_next_genre(current_genre, clusters, ordered_genres, MappingOf(mapping_used)),
          LAMBDA next_genre :
            IF next_genre # "" THEN <<next_genre>>
            ELSE IF remaining # <<>> THEN <<remaining[1].genre>>
            ELSE <<>>)

(* one pass of the loop *)
OrderPass ==
  /\ pc = "order_while" /\ Len(ordered_genres) < Len(clusters)
  /\ \E appended \in {OrderPassAppends} :
       /\ ordered_genres' = ordered_genres \o appended
       /\ pc' = IF appended = <<>> THEN "ordered" ELSE pc
  /\ UNCHANGED <<tableVars, clusters, mapping_used, curateVars, mergeVars, copyVars,
                 normVars, combineVars, resolveVars, analyzeVars>>

(* the loop condition is false: return ordered_genres *)
OrderLeave ==
  /\ pc = "order_while" /\ ~(Len(ordered_genres) < Len(clusters))
  /\ pc' = "ordered"
  /\ UNCHANGED <<tableVars, clusters, orderVars, curateVars, mergeVars, copyVars,
                 normVars, combineVars, resolveVars, analyzeVars>>

(* the lines before the loop of curate_cluster; cluster_copy is the list *)
(* the caller hands over, tracks.copy()                                  *)
CurateEnter ==
  /\ pc = "curate_call"
  /\ IF Len(cluster) <= 1
     THEN curated_order' = cluster /\ cluster_copy' = cluster /\ pc' = "curated"
     ELSE /\ curated_order' = <<Head(cluster)>>
          /\ cluster_copy' = Tail(cluster)
          /\ pc' = "curate_while"
  /\ UNCHANGED <<tableVars, clusters, orderVars, cluster, main_df, features_df,
                 mergeVars, copyVars, normVars, combineVars, resolveVars, analyzeVars>>

(* the current path has no row in the main table: the loop goes on with *)
(* nothing changed                                                      *)
CurrentRowMissingContinue == UNCHANGED <<pc, cluster_copy, curated_order>>

(* if current_row.empty: break *)
CurrentRowMissing == pc' = "curated" /\ UNCHANGED <<cluster_copy, curated_order>>

(* curated_order.append(cluster.pop(0)) *)
PopFirst(rest) ==
  /\ curated_order' = Append(curated_order, Head(rest))
  /\ cluster_copy' = Tail(rest)

(* one pass of while cluster *)
CuratePass ==
  /\ pc = "curate_while" /\ cluster_copy # <<>>
  /\ \E current_row \in {RowsFor(main_df, curated_order[Len(curated_order)])} :
       IF current_row = <<>> THEN CurrentRowMissing
       ELSE IF ~HasFeatures(features_df, current_row[1].unique_track)
       THEN PopFirst(cluster_copy) /\ UNCHANGED pc
       ELSE \E current_features \in {FeaturesOf(features_df, current_row[1].unique_track)} :
            \E next_track \in {Nearest(cluster_copy, main_df, features_df,
                                       current_features, "", -1)} :
              IF next_track # ""
              THEN /\ curated_order' = Append(curated_order, next_track)
                   /\ cluster_copy' = RemoveFirst(cluster_copy, next_track)
                   /\ UNCHANGED pc
              ELSE PopFirst(cluster_copy) /\ UNCHANGED pc
  /\ UNCHANGED <<tableVars, clusters, orderVars, cluster, main_df, features_df,
                 mergeVars, copyVars, normVars, combineVars, resolveVars, analyzeVars>>

(* the list is empty: return curated_order *)
CurateLeave ==
  /\ pc = "curate_while" /\ cluster_copy = <<>>
  /\ pc' = "curated"
  /\ UNCHANGED <<tableVars, clusters, orderVars, curateVars, mergeVars, copyVars,
                 normVars, combineVars, resolveVars, analyzeVars>>

(* before either function is called *)
LoopsInit ==
  /\ pc = "idle"
  /\ NoNormalize /\ NoCombine /\ NoResolve /\ NoAnalyze /\ NoPlaylist

(* the mappings of n clusters that are each empty or of MaxClusterSize     *)
(* tracks: the loop reads the keys, their relations and the order of the  *)
(* sizes only                                                             *)
LoopMappings(n) ==
  {c \in ClusterMappings(n) : \A k \in 1..n : Len(c[k].tracks) \in {0, MaxClusterSize}}

(* order_clusters_by_relationships is called with some arguments *)
OrderCall ==
  /\ pc = "idle" /\ pc' = "order_call"
  /\ \E n \in 0..MaxClusters : clusters' \in LoopMappings(n)
  /\ mapping_used' \in MappingNames
  /\ UNCHANGED <<ordered_genres, tableVars, curateVars, mergeVars, copyVars, normVars,
                 combineVars, resolveVars, analyzeVars>>

(* curate_cluster is called with some arguments *)
CurateCall ==
  /\ pc = "idle" /\ pc' = "curate_call"
  /\ \E n \in 0..MaxCurated :
       \E kinds \in [1..n -> TrackKinds] :
         /\ cluster' = ClusterOf(n)
         /\ main_df' = MainTable(n, kinds)
         /\ features_df' = FeatureTable(n, kinds)
  /\ UNCHANGED <<cluster_copy, curated_order, tableVars, clusters, orderVars, mergeVars,
                 copyVars, normVars, combineVars, resolveVars, analyzeVars>>

(* the steps of a call that is running *)
LoopsRun ==
  OrderEnter \/ OrderPass \/ OrderLeave \/ CurateEnter \/ CuratePass \/ CurateLeave

LoopsNext == OrderCall \/ CurateCall \/ LoopsRun

(* a running call that can take a step takes one: the interpreter does *)
(* not stop                                                            *)
SpecLoops == LoopsInit /\ [][LoopsNext]_vars /\ WF_vars(LoopsRun)

(* ------------------------------------------------------------------ *)
(* Properties of the loops (SpecLoops)                                  *)
(* ------------------------------------------------------------------ *)
(* what each way of running the functions returns is the same list *)
LoopsAgree ==
  /\ pc = "ordered" =>
       ordered_genres = order_clusters_by_relationships(clusters, MappingOf(mapping_used))
  /\ pc = "curated" => curated_order = curate_cluster(cluster, main_df, features_df)


(* the track at the tail of the sequence *)
TailTrack == curated_order[Len(curated_order)]

(* the path has a row in the main table *)
HasRow(path) == RowsFor(main_df, path) # <<>>

(* the input positions of the tracks not yet placed *)
Unplaced == {i \in 1..Len(cluster) : ~InSeq(cluster[i], curated_order)}

(* the first not-yet-placed track in input order *)
FirstUnplaced == cluster[CHOOSE i \in Unplaced : \A j \in Unplaced : i <= j]

(* C24: in a pass of the loop of curate_cluster one track is appended;   *)
(* it is the first not-yet-placed track in input order when the tail     *)
(* track has no features, and also when the tail has features but no     *)
(* remaining candidate has any; otherwise it is a candidate with         *)
(* features.                                                             *)
C24_MissingFeatures ==
  [][(pc = "curate_while" /\ cluster_copy # <<>>) =>
       /\ Len(curated_order') = Len(curated_order) + 1
       /\ SubSeq(curated_order', 1, Len(curated_order)) = curated_order
       /\ LET appended == curated_order'[Len(curated_order')]
          IN  IF VectorOf(TailTrack) = <<>> THEN appended = FirstUnplaced
              ELSE IF \A i \in Unplaced : VectorOf(cluster[i]) = <<>>
              THEN appended = FirstUnplaced
              ELSE appended \in {cluster[i] : i \in Unplaced} /\ VectorOf(appended) # <<>>
    ]_vars

(* ------------------------------------------------------------------ *)
(* Further properties of the artist tag (SpecAnalyze)                   *)
(* ------------------------------------------------------------------ *)
(* C25: the artist-tag step gives any two records whose artist names are *)
(* equal ignoring case the same spawnre_tag, and leaves the spawnre and  *)
(* spawnre_hex fields of every record as they were.                      *)
C25_TagPerArtist ==
  [][(pc = "tracks" /\ pc' = "tagged") =>
       /\ Len(data') = Len(data)
       /\ \A i, j \in 1..Len(data') :
            Lower(data'[i].artist) = Lower(data'[j].artist)
              => data'[i].spawnre_tag = data'[j].spawnre_tag
       /\ \A i \in 1..Len(data) :
            /\ data'[i].spawnre = data[i].spawnre
            /\ data'[i].spawnre_hex = data[i].spawnre_hex
            /\ data'[i].artist = data[i].artist
    ]_vars

(* C25 witness: artist "X" resolved to jazz, then "x" to rock, then "X"  *)
(* to rock: all three records are tagged rock and keep their own spawnre. *)
C25_Witness ==
  /\ pc = "tagged"
  /\ Len(data) = 3
  /\ data[1].artist = "X" /\ data[2].artist = "x" /\ data[3].artist = "X"
  /\ data[1].spawnre = "jazz" /\ data[2].spawnre = "rock" /\ data[3].spawnre = "rock"
  /\ \A i \in 1..3 : data[i].spawnre_tag = "rock"


(* the clusters or tracks a call has still to place *)
LeftToPlace ==
  IF pc = "order_while" THEN Len(clusters) - Len(ordered_genres)
  ELSE IF pc = "curate_while" THEN Len(cluster_copy)
  ELSE 0

(* the call has returned *)
Returned == pc \in {"ordered", "curated"}

(* C26: every pass of the two while loops either places one more cluster *)
(* or track or leaves the loop, and every call returns.                  *)
C26_LoopsTerminate ==
  /\ [][(pc \in {"order_while", "curate_while"}) =>
          \/ pc' = pc /\ LeftToPlace >= 1 /\ LeftToPlace' = LeftToPlace - 1
          \/ Returned']_vars
  /\ (pc # "idle") ~> Returned

(* C26 witness: rock, blues and jazz ordered in the taxonomy in which    *)
(* rock and blues are related to each other: the loop ran past the cycle. *)
C26_Witness ==
  /\ pc = "ordered"
  /\ mapping_used = "scenario"
  /\ Len(clusters) = 3
  /\ ordered_genres = <<"rock", "blues", "jazz">>

(* ------------------------------------------------------------------ *)
(* The caches of the lookups (SpecLookup)                               *)
(* ------------------------------------------------------------------ *)
(* the module-level cache of a lookup; fetch_genre_lastfm has none *)
CacheOf(source) ==
  IF source = "spotify" THEN spotify_genre_cache
  ELSE IF source = "musicbrainz" THEN musicbrainz_genre_cache
  ELSE <<>>

(* C27: once a lookup for an artist has succeeded (the artist is in the   *)
(* cache), a later get_spotify_genres or get_musicbrainz_genres for that  *)
(* artist returns the same list and does not call the service again.      *)
C27_CachedLookup ==
  [][(/\ pc = "lookup" /\ lookup \in {"spotify", "musicbrainz"}
      /\ (lookup = "spotify" => credentials)
      /\ InCache(CacheOf(lookup), lookup_artist)) =>
        /\ pc' = "returned"
        /\ lookup_result' = CacheGet(CacheOf(lookup), lookup_artist)
        /\ attempt' = attempt /\ responses' = responses
    ]_vars

(* ------------------------------------------------------------------ *)
(* The playlist file at the end of the run (SpecMerge)                  *)
(* ------------------------------------------------------------------ *)
(* C28: a run that has built a non-empty list of ordered clusters ends    *)
(* with the curated playlist written, whatever was answered at the        *)
(* prompt (declined, a list, the saved order, a JSON file), unknown       *)
(* genres in the answer included.                                         *)
C28_PlaylistWritten ==
  (pc = "done" /\ ordered_clusters # <<>>) => m3u.written

(* ------------------------------------------------------------------ *)
(* What curate_cluster returns (SpecLoops)                              *)
(* ------------------------------------------------------------------ *)
(* C29: the list curate_cluster returns is a permutation of the input     *)
(* cluster, whatever rows and features the tracks have, and the list the  *)
(* caller holds is not changed by the call.                               *)
C29_Permutation ==
  /\ [](pc = "curated" =>
          /\ Len(curated_order) = Len(cluster)
          /\ \A i \in 1..Len(cluster) :
               Occurrences(curated_order, cluster[i]) = Occurrences(cluster, cluster[i]))
  /\ [][(pc \in {"curate_call", "curate_while"}) => (cluster' = cluster)]_vars

(* ------------------------------------------------------------------ *)
(* The keys of the mapping (SpecClusters)                               *)
(* ------------------------------------------------------------------ *)
(* C30: every key of the mapping returned by create_clusters has at      *)
(* least one track: a genre all of whose tracks the loved filter         *)
(* excludes gives no cluster.                                            *)
C30_NoEmptyCluster ==
  pc = "clustered" => \A k \in 1..Len(clusters) : clusters[k].tracks # <<>>

====
